---- MODULE Spec2Model ----
(***************************************************************************)
(* Model of hariguchi/iproute: the netlink/netns wrapper library and the   *)
(* two example orchestrators built on it (the ns1/ns2 namespace topology   *)
(* of src/examples/example1.go and the br1/vrf1 bridge topology of        *)
(* src/unnamed/part_000).                                                  *)
(*                                                                         *)
(* The kernel is the external collaborator.  It is modelled as a table of  *)
(* links (one record per interface), the set of named network namespaces   *)
(* and the state of each namespace's loopback.  A namespace is identified  *)
(* by its name; a namespace whose name has been deleted lives on, with the *)
(* links in it, until the process that still references it exits.  Every   *)
(* process starts in the root namespace.  Lookups fail only when the       *)
(* object is absent or of another kind; every other kernel or namespace    *)
(* call may in addition fail by injection (the set f of each operation).   *)
(***************************************************************************)
EXTENDS Integers, Sequences, FiniteSets, TLC

VARIABLES kern, cur, pc, cmd, ret, loc, flt, nfault, trace, hist, last

vars == <<kern, cur, pc, cmd, ret, loc, flt, nfault, trace, hist, last>>

(* ------------------------------ bounds -------------------------------- *)
MaxLinks == 7
MaxRuns == 2
MaxFaults == 1
MaxNh == 2
MaxIPs == 3

(* --------------------------- kernel state ----------------------------- *)
Root == "root"
NsNames == {"ns1", "ns2"}
AllNs == {Root} \cup NsNames
LinkIds == 1..MaxLinks

NoLink ==
  [ns |-> "none", name |-> "", kind |-> "none", up |-> FALSE, master |-> 0,
   addrs |-> {}, peer |-> 0, index |-> 0]

EmptyKernel ==
  [links |-> [i \in LinkIds |-> NoLink], nsNamed |-> {},
   loUp |-> [n \in AllNs |-> n = Root],
   tids |-> [i \in LinkIds |-> 0], routes |-> {}]

Min(S) == CHOOSE x \in S : \A y \in S : x <= y

Links(k) == {i \in LinkIds : k.links[i].kind # "none"}
FreeIds(k) == LinkIds \ Links(k)
LinksIn(k, ns) == {i \in Links(k) : k.links[i].ns = ns}

\* ifindex is scoped to the namespace; index 1 is the loopback
NewIndex(k, ns, taken) ==
  Min({j \in 2..(MaxLinks + 2) :
         /\ j \notin taken
         /\ \A i \in LinksIn(k, ns) : k.links[i].index # j})

\* kernel error texts, as netlink renders them
ENotFound == "Link not found"
EExist == "file exists"
EPerm == "operation not permitted"
EInval == "invalid argument"
ENoBufs == "no buffer space available"
ENoNs == "no such file or directory"
EBusy == "device or resource busy"
ENxio == "no such device or address"

KLinkByName(k, ns, name) ==
  LET s == {i \in LinksIn(k, ns) : k.links[i].name = name}
  IN IF s = {} THEN 0 ELSE CHOOSE i \in s : TRUE

KLinkByIndex(k, ns, idx) ==
  LET s == {i \in LinksIn(k, ns) : k.links[i].index = idx}
  IN IF s = {} THEN 0 ELSE CHOOSE i \in s : TRUE

\* RTM_NEWLINK for a veth pair: the peer is registered first
KVethAdd(k, ns, name, peer) ==
  IF name = peer \/ KLinkByName(k, ns, name) # 0 \/ KLinkByName(k, ns, peer) # 0
  THEN [k |-> k, err |-> EExist]
  ELSE IF Cardinality(FreeIds(k)) < 2
  THEN [k |-> k, err |-> ENoBufs]
  ELSE LET a == Min(FreeIds(k))
           b == Min(FreeIds(k) \ {a})
           ib == NewIndex(k, ns, {})
           ia == NewIndex(k, ns, {ib})
           la == [ns |-> ns, name |-> name, kind |-> "veth", up |-> FALSE,
                  master |-> 0, addrs |-> {}, peer |-> b, index |-> ia]
           lb == [ns |-> ns, name |-> peer, kind |-> "veth", up |-> FALSE,
                  master |-> 0, addrs |-> {}, peer |-> a, index |-> ib]
       IN [k |-> [k EXCEPT !.links = [@ EXCEPT ![a] = la, ![b] = lb]],
           err |-> ""]

\* RTM_NEWLINK / SIOCSIFBR for a single device of kind bridge or vrf
KLinkAdd(k, ns, name, kind) ==
  IF KLinkByName(k, ns, name) # 0
  THEN [k |-> k, err |-> EExist]
  ELSE IF FreeIds(k) = {}
  THEN [k |-> k, err |-> ENoBufs]
  ELSE LET a == Min(FreeIds(k))
           la == [ns |-> ns, name |-> name, kind |-> kind, up |-> FALSE,
                  master |-> 0, addrs |-> {}, peer |-> 0,
                  index |-> NewIndex(k, ns, {})]
       IN [k |-> [k EXCEPT !.links = [@ EXCEPT ![a] = la]], err |-> ""]

\* the links that disappear together with link id: a veth goes with its peer
Gone(k, ids) ==
  ids \cup {k.links[i].peer : i \in {j \in ids : k.links[j].peer # 0}}

KRemove(k, ids) ==
  [k EXCEPT !.links =
     [i \in LinkIds |->
        IF i \in Gone(k, ids) THEN NoLink
        ELSE IF k.links[i].master \in Gone(k, ids)
             THEN [k.links[i] EXCEPT !.master = 0]
             ELSE k.links[i]],
            !.tids = [i \in LinkIds |-> IF i \in Gone(k, ids) THEN 0 ELSE @[i]]]

KLinkDel(k, id) == KRemove(k, {id})

KLinkSetUp(k, id) == [k EXCEPT !.links[id].up = TRUE]
KLinkSetDown(k, id) == [k EXCEPT !.links[id].up = FALSE]

\* moving a device to another namespace closes it, flushes its addresses,
\* releases it from its master and gives it an index that is free there
KLinkSetNs(k, id, target) ==
  LET l == k.links[id] IN
  IF l.ns = target THEN [k |-> k, err |-> ""]
  ELSE IF l.kind \in {"bridge", "vrf"} THEN [k |-> k, err |-> EInval]
  ELSE IF KLinkByName(k, target, l.name) # 0 THEN [k |-> k, err |-> EExist]
  ELSE LET idx == IF KLinkByIndex(k, target, l.index) = 0
                  THEN l.index ELSE NewIndex(k, target, {})
           k1 == [k EXCEPT !.links =
                    [i \in LinkIds |->
                       IF i = id
                       THEN [l EXCEPT !.ns = target, !.up = FALSE,
                                      !.addrs = {}, !.master = 0,
                                      !.index = idx]
                       ELSE IF k.links[i].master = id
                            THEN [k.links[i] EXCEPT !.master = 0]
                            ELSE k.links[i]]]
       IN [k |-> k1, err |-> ""]

KAddrAdd(k, id, p) ==
  IF p \in k.links[id].addrs THEN [k |-> k, err |-> EExist]
  ELSE [k |-> [k EXCEPT !.links[id].addrs = @ \cup {p}], err |-> ""]

KAddrReplace(k, id, p) ==
  [k |-> [k EXCEPT !.links[id].addrs = @ \cup {p}], err |-> ""]

KLinkSetMaster(k, id, m) ==
  IF m \notin Links(k) \/ k.links[m].kind \notin {"bridge", "vrf"}
     \/ k.links[m].ns # k.links[id].ns
  THEN [k |-> k, err |-> EInval]
  ELSE [k |-> [k EXCEPT !.links[id].master = m], err |-> ""]

KLinkSetNoMaster(k, id) == [k EXCEPT !.links[id].master = 0]

\* a namespace that lost its name is destroyed when the last reference to
\* it goes, at the latest when the process exits; its devices go with it
ExitGC(k) ==
  LET dead == NsNames \ k.nsNamed
      k1 == KRemove(k, {i \in Links(k) : k.links[i].ns \in dead})
  IN [k1 EXCEPT !.loUp = [n \in AllNs |-> IF n \in dead THEN FALSE ELSE @[n]]]

\* the forwarding tables: entries keyed by table id and destination, each
\* with its gateways in order.  Table 0 is the default table.
ENoRoute == "no such process"

KRouteGws(r) ==
  IF Len(r.MultiPath) > 0 THEN [i \in 1..Len(r.MultiPath) |-> r.MultiPath[i].Gw]
  ELSE IF r.Gw # "nil" THEN <<r.Gw>> ELSE <<>>

KRouteEntry(r) ==
  [Table |-> r.Table, Type |-> "unicast", Dst |-> r.Dst, Gws |-> KRouteGws(r)]

KRouteSame(k, r) == {e \in k.routes : e.Table = r.Table /\ e.Dst = r.Dst}

\* RTM_NEWROUTE with NLM_F_CREATE | NLM_F_EXCL
KRouteAdd(k, r) ==
  IF KRouteSame(k, r) # {} THEN [k |-> k, err |-> EExist]
  ELSE [k |-> [k EXCEPT !.routes = @ \cup {KRouteEntry(r)}], err |-> ""]

\* RTM_NEWROUTE with NLM_F_CREATE | NLM_F_REPLACE
KRouteReplace(k, r) ==
  [k |-> [k EXCEPT !.routes = (@ \ KRouteSame(k, r)) \cup {KRouteEntry(r)}],
   err |-> ""]

\* RTM_DELROUTE
KRouteDel(k, r) ==
  IF KRouteSame(k, r) = {} THEN [k |-> k, err |-> ENoRoute]
  ELSE [k |-> [k EXCEPT !.routes = @ \ KRouteSame(k, r)], err |-> ""]

\* RTM_GETROUTE dump filtered by table and type: an entry with one gateway
\* is reported with Gw, an entry with several with MultiPath
KRouteList(k, tid, type) ==
  {[Dst |-> e.Dst,
    Gw |-> IF Len(e.Gws) = 1 THEN e.Gws[1] ELSE "nil",
    MultiPath |-> IF Len(e.Gws) > 1
                  THEN [i \in 1..Len(e.Gws) |-> [Gw |-> e.Gws[i], Flags |-> 0]]
                  ELSE <<>>,
    Flags |-> 0, Table |-> e.Table] :
     e \in {x \in k.routes : x.Table = tid /\ x.Type = type}}

(* ---------------------- errors and classification --------------------- *)
\* An error is the sequence of the fragments of its message; nil is <<>>.
Nil == <<>>
IsErr(e) == e # Nil
Frag(e, s) == \E i \in 1..Len(e) : e[i] = s

\* regexp.MatchString over the rendered text: the fragments that contain
\* the pattern
MatchesNotFound(s) == s \in {ENotFound}
MatchesExist(s) == s \in {EExist}

isThisInError(pat, e) ==
  \E i \in 1..Len(e) :
     IF pat = "not found" THEN MatchesNotFound(e[i])
     ELSE IF pat = "(already|file) exists" THEN MatchesExist(e[i])
     ELSE FALSE

IsNotFound(e) == isThisInError("not found", e)
IsExist(e) == isThisInError("(already|file) exists", e)

KErr(s) == IF s = "" THEN Nil ELSE <<s>>

(* ------------------- namespace channel (go_netns) --------------------- *)
\* netns.Get / netns.GetMyHandle: a handle to the current namespace
NsGet(c, f) ==
  IF "Get" \in f THEN [h |-> "none", err |-> <<EPerm>>]
  ELSE [h |-> c, err |-> Nil]

\* netns.GetByName / netns.GetHandleByName
NsGetByName(k, name, f) ==
  IF name \notin k.nsNamed THEN [h |-> "none", err |-> <<ENoNs>>]
  ELSE IF "GetByName" \in f THEN [h |-> "none", err |-> <<EPerm>>]
  ELSE [h |-> name, err |-> Nil]

\* netns.AddByName: creates the named namespace, the caller stays where it
\* is.  On a name that exists the channel either refuses or hands out the
\* existing namespace (reuse).
NsAddByName(k, name, reuse, f) ==
  IF "AddByName" \in f THEN [k |-> k, h |-> "none", err |-> <<EPerm>>]
  ELSE IF name \in k.nsNamed
  THEN IF reuse THEN [k |-> k, h |-> name, err |-> Nil]
       ELSE [k |-> k, h |-> "none", err |-> <<EExist>>]
  ELSE [k |-> [k EXCEPT !.nsNamed = @ \cup {name}, !.loUp[name] = FALSE],
        h |-> name, err |-> Nil]

\* NsDesc.Set / netns.SetByHandle: enter the namespace the handle refers to
NsSet(c, h, f) ==
  IF "Set" \in f \/ h = "none" THEN [cur |-> c, err |-> <<EPerm>>]
  ELSE [cur |-> h, err |-> Nil]

\* netns.SetByName
NsSetByName(k, c, name, f) ==
  IF name \notin k.nsNamed THEN [cur |-> c, err |-> <<ENoNs>>]
  ELSE IF "SetByName" \in f THEN [cur |-> c, err |-> <<EPerm>>]
  ELSE [cur |-> name, err |-> Nil]

\* NsDesc.Delete / netns.DeleteByName: removes the name
NsDelete(k, name, f) ==
  IF name \notin k.nsNamed THEN [k |-> k, err |-> <<ENoNs>>]
  ELSE IF "Delete" \in f THEN [k |-> k, err |-> <<EPerm>>]
  ELSE [k |-> [k EXCEPT !.nsNamed = @ \ {name}], err |-> Nil]

(* ----------------------- netns.go: relocation ------------------------- *)
IfSetNS(k, c, ifName, nsName, f) ==
  LET l == KLinkByName(k, c, ifName)
      h == NsGetByName(k, nsName, IF "GetHandleByName" \in f THEN {"GetByName"} ELSE {})
  IN IF l = 0
     THEN [k |-> k, err |-> <<"IfSetNS(): LinkByName(", ifName, "): ", ENotFound>>]
     ELSE IF IsErr(h.err)
     THEN [k |-> k,
           err |-> <<"IfSetNs(): GetHandleByName(", nsName, "): ">> \o h.err]
     ELSE IF "LinkSetNsFd" \in f THEN [k |-> k, err |-> <<EPerm>>]
     ELSE LET r == KLinkSetNs(k, l, h.h) IN [k |-> r.k, err |-> KErr(r.err)]

\* pid 1 lives in the root namespace
IfSetNSbyPid(k, c, ifName, pid, f) ==
  LET l == KLinkByName(k, c, ifName) IN
  IF l = 0
  THEN [k |-> k,
        err |-> <<"IfSetNSbyPid(): LinkByName(", ifName, "): ", ENotFound>>]
  ELSE IF "LinkSetNsPid" \in f \/ pid # 1 THEN [k |-> k, err |-> <<EPerm>>]
  ELSE LET r == KLinkSetNs(k, l, Root) IN [k |-> r.k, err |-> KErr(r.err)]

\* the namespace handles IfSetNS obtains and the ones it closes before it
\* returns: the handle of GetHandleByName is passed to LinkSetNsFd and the
\* function has no Close call
IfSetNSHandles(k, c, ifName, nsName, f) ==
  LET l == KLinkByName(k, c, ifName)
      h == NsGetByName(k, nsName, IF "GetHandleByName" \in f THEN {"GetByName"} ELSE {})
  IN IF l = 0 THEN [opened |-> {}, closed |-> {}]
     ELSE IF IsErr(h.err) THEN [opened |-> {}, closed |-> {}]
     ELSE [opened |-> {"GetHandleByName"}, closed |-> {}]

\* the namespace handles IfUnsetNS obtains and the ones it closes before it
\* returns: the only Close is the deferred ns.Close() registered once
\* SetByName succeeded
IfUnsetNSHandles(k, c, ifName, nsName, f) ==
  LET g == NsGet(c, IF "GetMyHandle" \in f THEN {"Get"} ELSE {})
      s == NsSetByName(k, c, nsName, f)
  IN IF IsErr(g.err) THEN [opened |-> {}, closed |-> {}]
     ELSE IF IsErr(s.err) THEN [opened |-> {"GetMyHandle"}, closed |-> {}]
     ELSE [opened |-> {"GetMyHandle", "SetByName"}, closed |-> {"SetByName"}]

\* a variant that returns as soon as the move fails
IfUnsetNS_returnOnMoveError(k, c, ifName, nsName, f) ==
  LET g == NsGet(c, IF "GetMyHandle" \in f THEN {"Get"} ELSE {})
      s == NsSetByName(k, c, nsName, f)
      m == IfSetNSbyPid(k, s.cur, ifName, 1, f)
      b == NsSet(s.cur, g.h, IF "SetByHandle" \in f THEN {"Set"} ELSE {})
  IN IF IsErr(g.err)
     THEN [k |-> k, cur |-> c, failed |-> {"GetMyHandle"},
           calls |-> <<"GetMyHandle">>,
           err |-> <<"IfUnsetNS(", nsName, "): GetMyHandle(): ">> \o g.err]
     ELSE IF IsErr(s.err)
     THEN [k |-> k, cur |-> c, failed |-> {"SetByName"},
           calls |-> <<"GetMyHandle", "SetByName">>,
           err |-> <<"IfUnsetNS(): namespace ", nsName, ": ">> \o s.err]
     ELSE IF IsErr(m.err)
     THEN [k |-> m.k, cur |-> s.cur, failed |-> {"IfSetNSbyPid"},
           calls |-> <<"GetMyHandle", "SetByName", "IfSetNSbyPid">>,
           err |-> <<"IfSetNSbyPid(", ifName, ", 1): ">> \o m.err \o <<". ">>]
     ELSE [k |-> m.k, cur |-> b.cur,
           failed |-> IF IsErr(b.err) THEN {"SetByHandle"} ELSE {},
           calls |-> <<"GetMyHandle", "SetByName", "IfSetNSbyPid", "SetByHandle">>,
           err |-> IF IsErr(b.err)
                   THEN <<"IfUnsetNS(", nsName,
                          "): failed to switch back namespace: ">> \o b.err
                   ELSE Nil]

\* a variant that overwrites the message instead of appending to it, and
\* so reports a failed switch-back after a failed move as the move alone
IfUnsetNS_dropBackMessage(k, c, ifName, nsName, f) ==
  LET g == NsGet(c, IF "GetMyHandle" \in f THEN {"Get"} ELSE {})
      s == NsSetByName(k, c, nsName, f)
      m == IfSetNSbyPid(k, s.cur, ifName, 1, f)
      b == NsSet(s.cur, g.h, IF "SetByHandle" \in f THEN {"Set"} ELSE {})
      e3 == IF IsErr(m.err)
            THEN <<"IfSetNSbyPid(", ifName, ", 1): ">> \o m.err \o <<". ">>
            ELSE Nil
      e4 == IF IsErr(b.err) /\ ~IsErr(m.err)
            THEN <<"IfUnsetNS(", nsName,
                   "): failed to switch back namespace: ">> \o b.err
            ELSE Nil
  IN IF IsErr(g.err)
     THEN [k |-> k, cur |-> c, failed |-> {"GetMyHandle"},
           calls |-> <<"GetMyHandle">>,
           err |-> <<"IfUnsetNS(", nsName, "): GetMyHandle(): ">> \o g.err]
     ELSE IF IsErr(s.err)
     THEN [k |-> k, cur |-> c, failed |-> {"SetByName"},
           calls |-> <<"GetMyHandle", "SetByName">>,
           err |-> <<"IfUnsetNS(): namespace ", nsName, ": ">> \o s.err]
     ELSE [k |-> m.k, cur |-> b.cur,
           failed |-> (IF IsErr(m.err) THEN {"IfSetNSbyPid"} ELSE {})
                      \cup (IF IsErr(b.err) THEN {"SetByHandle"} ELSE {}),
           calls |-> <<"GetMyHandle", "SetByName", "IfSetNSbyPid", "SetByHandle">>,
           err |-> e3 \o e4]

\* IfUnsetNS: save the current handle, enter nsName, move ifName to the
\* namespace of pid 1, switch back to the saved handle
IfUnsetNS(k, c, ifName, nsName, f) ==
  LET g == NsGet(c, IF "GetMyHandle" \in f THEN {"Get"} ELSE {})
      s == NsSetByName(k, c, nsName, f)
      m == IfSetNSbyPid(k, s.cur, ifName, 1, f)
      b == NsSet(s.cur, g.h, IF "SetByHandle" \in f THEN {"Set"} ELSE {})
      e3 == IF IsErr(m.err)
            THEN <<"IfSetNSbyPid(", ifName, ", 1): ">> \o m.err \o <<". ">>
            ELSE Nil
      e4 == IF IsErr(b.err)
            THEN <<"IfUnsetNS(", nsName,
                   "): failed to switch back namespace: ">> \o b.err
            ELSE Nil
  IN IF IsErr(g.err)
     THEN [k |-> k, cur |-> c, failed |-> {"GetMyHandle"},
           calls |-> <<"GetMyHandle">>,
           err |-> <<"IfUnsetNS(", nsName, "): GetMyHandle(): ">> \o g.err]
     ELSE IF IsErr(s.err)
     THEN [k |-> k, cur |-> c, failed |-> {"SetByName"},
           calls |-> <<"GetMyHandle", "SetByName">>,
           err |-> <<"IfUnsetNS(): namespace ", nsName, ": ">> \o s.err]
     ELSE [k |-> m.k, cur |-> b.cur,
           failed |-> (IF IsErr(m.err) THEN {"IfSetNSbyPid"} ELSE {})
                      \cup (IF IsErr(b.err) THEN {"SetByHandle"} ELSE {}),
           calls |-> <<"GetMyHandle", "SetByName", "IfSetNSbyPid", "SetByHandle">>,
           err |-> e3 \o e4]


(* --------------------- link.go: links and addresses ------------------- *)
LinkDel(k, c, name, f) ==
  LET l == KLinkByName(k, c, name) IN
  IF l = 0 THEN [k |-> k, err |-> <<ENotFound>>]
  ELSE IF "LinkDel" \in f THEN [k |-> k, err |-> <<EPerm>>]
  ELSE [k |-> KLinkDel(k, l), err |-> Nil]

\* the loopback of the current namespace always exists
IfUpByName(k, c, name, f) ==
  IF name = "lo"
  THEN IF "LinkSetUp" \in f THEN [k |-> k, err |-> <<EPerm>>]
       ELSE [k |-> [k EXCEPT !.loUp[c] = TRUE], err |-> Nil]
  ELSE LET l == KLinkByName(k, c, name) IN
       IF l = 0 THEN [k |-> k, err |-> <<ENotFound>>]
       ELSE IF "LinkSetUp" \in f THEN [k |-> k, err |-> <<EPerm>>]
       ELSE [k |-> KLinkSetUp(k, l), err |-> Nil]

\* RTM_SETLINK with IFLA_IFNAME: a device that is up is busy, a name in
\* use by another device of the namespace is refused
KLinkSetName(k, id, new) ==
  LET other == KLinkByName(k, k.links[id].ns, new) IN
  IF k.links[id].up THEN [k |-> k, err |-> EBusy]
  ELSE IF other # 0 /\ other # id THEN [k |-> k, err |-> EExist]
  ELSE [k |-> [k EXCEPT !.links[id].name = new], err |-> ""]

\* an IfRename that leaves the interface down after the rename
IfRename_staysDown(k, c, oldName, newName, f) ==
  LET l == KLinkByName(k, c, oldName)
      errMsg == <<"Error: IfRename(", oldName, ", ", newName, "): ">>
      linkUp == k.links[l].up
      k1 == IF linkUp THEN KLinkSetDown(k, l) ELSE k
      n == KLinkSetName(k1, l, newName)
  IN IF l = 0
     THEN [k |-> k, err |-> errMsg \o <<"LinkByName(): ", ENotFound>>]
     ELSE IF linkUp /\ "LinkSetDown" \in f
     THEN [k |-> k, err |-> <<"IfRename(", oldName, "): LinkSetName(",
                              newName, "): ", EPerm>>]
     ELSE IF "LinkSetName" \notin f /\ n.err = ""
     THEN [k |-> n.k, err |-> Nil]
     ELSE [k |-> k1, err |-> errMsg \o <<"LinkSetName(): ",
                     IF "LinkSetName" \in f THEN EPerm ELSE n.err>>]

\* IfRename(oldName, newName): down if up, rename, up again if it was up,
\* on the failure path of the rename as well
IfRename(k, c, oldName, newName, f) ==
  LET l == KLinkByName(k, c, oldName)
      errMsg == <<"Error: IfRename(", oldName, ", ", newName, "): ">>
      linkUp == k.links[l].up
      k1 == IF linkUp THEN KLinkSetDown(k, l) ELSE k
      n == KLinkSetName(k1, l, newName)
      named == "LinkSetName" \notin f /\ n.err = ""
      k2 == IF named THEN n.k ELSE k1
      nameErr == errMsg \o <<"LinkSetName(): ",
                             IF "LinkSetName" \in f THEN EPerm ELSE n.err>>
  IN IF l = 0
     THEN [k |-> k, err |-> errMsg \o <<"LinkByName(): ", ENotFound>>]
     ELSE IF linkUp /\ "LinkSetDown" \in f
     THEN [k |-> k, err |-> <<"IfRename(", oldName, "): LinkSetName(",
                              newName, "): ", EPerm>>]
     ELSE IF linkUp /\ "LinkSetUp" \in f
     THEN [k |-> k2, err |-> errMsg \o <<"LinkSetUp(): ", EPerm>>]
     ELSE IF linkUp
     THEN [k |-> KLinkSetUp(k2, l), err |-> IF named THEN Nil ELSE nameErr]
     ELSE [k |-> k2, err |-> IF named THEN Nil ELSE nameErr]

IfUnbind(k, c, ifName, f) ==
  LET l == KLinkByName(k, c, ifName) IN
  IF l = 0 THEN [k |-> k, err |-> <<ENotFound>>]
  ELSE IF "LinkSetNoMaster" \in f THEN [k |-> k, err |-> <<EPerm>>]
  ELSE [k |-> KLinkSetNoMaster(k, l), err |-> Nil]

\* a variant that leaves the interface down
IpAddrAdd_noUp(k, c, name, addr, up, f) ==
  LET l == KLinkByName(k, c, name)
      a == IF l = 0 THEN [k |-> k, err |-> ""] ELSE KAddrAdd(k, l, addr)
  IN IF l = 0 THEN [k |-> k, err |-> <<ENotFound>>]
     ELSE IF "AddrAdd" \in f THEN [k |-> k, err |-> <<EPerm>>]
     ELSE [k |-> a.k, err |-> KErr(a.err)]

IpAddrAdd(k, c, name, addr, up, f) ==
  LET l == KLinkByName(k, c, name)
      a == IF l = 0 THEN [k |-> k, err |-> ""] ELSE KAddrAdd(k, l, addr)
  IN IF l = 0 THEN [k |-> k, err |-> <<ENotFound>>]
     ELSE IF "AddrAdd" \in f THEN [k |-> k, err |-> <<EPerm>>]
     ELSE IF a.err # "" THEN [k |-> k, err |-> <<a.err>>]
     ELSE IF ~up THEN [k |-> a.k, err |-> Nil]
     ELSE IF "LinkSetUp" \in f THEN [k |-> a.k, err |-> <<EPerm>>]
     ELSE [k |-> KLinkSetUp(a.k, l), err |-> Nil]

IpAddrReplace(k, c, name, addr, up, f) ==
  LET l == KLinkByName(k, c, name)
      a == IF l = 0 THEN [k |-> k, err |-> ""] ELSE KAddrReplace(k, l, addr)
  IN IF l = 0 THEN [k |-> k, err |-> <<ENotFound>>]
     ELSE IF "AddrReplace" \in f THEN [k |-> k, err |-> <<EPerm>>]
     ELSE IF ~up THEN [k |-> a.k, err |-> Nil]
     ELSE IF "LinkSetUp" \in f THEN [k |-> a.k, err |-> <<EPerm>>]
     ELSE [k |-> KLinkSetUp(a.k, l), err |-> Nil]

(* ------------- link.go: the veth handle with string fields ------------ *)
\* the peer is looked up by its ifindex in the current namespace; the
\* unchecked type assertion panics on a link that is no veth
VethGetPeerLinkByName(k, c, name) ==
  LET l == KLinkByName(k, c, name)
      idx == IF l = 0 \/ k.links[l].peer = 0 THEN 0
             ELSE k.links[k.links[l].peer].index
      p == KLinkByIndex(k, c, idx)
  IN IF l = 0
     THEN [link |-> 0, panic |-> FALSE,
           err |-> <<"VethGetPeerLinkByName(", name, "): ", ENotFound>>]
     ELSE IF k.links[l].kind # "veth"
     THEN [link |-> 0, panic |-> FALSE,
           err |-> <<"VethGetPeerLinkByName(): ", name, " is not veth">>]
     ELSE IF p = 0
     THEN [link |-> 0, panic |-> FALSE,
           err |-> <<"LinkByIndex(", name, "): ", ENotFound>>]
     ELSE IF k.links[p].kind # "veth"
     THEN [link |-> 0, panic |-> TRUE, err |-> Nil]
     ELSE [link |-> p, panic |-> FALSE, err |-> Nil]

NilVethL == [Name |-> "", Peer |-> ""]

VethGetByNameL(k, c, name) ==
  LET r == VethGetPeerLinkByName(k, c, name) IN
  IF r.panic THEN [veth |-> NilVethL, panic |-> TRUE, err |-> Nil]
  ELSE IF IsErr(r.err)
  THEN [veth |-> NilVethL, panic |-> FALSE,
        err |-> <<"VethGetByName(", name, "): ">> \o r.err]
  ELSE [veth |-> [Name |-> name, Peer |-> k.links[r.link].name],
        panic |-> FALSE, err |-> Nil]

\* Veth.Add: creates the pair and brings up the named endpoint only
VethAddMethodL(k, c, v, up, f) ==
  LET a == KVethAdd(k, c, v.Name, v.Peer) IN
  IF "LinkAdd" \in f THEN [k |-> k, err |-> <<EPerm>>]
  ELSE IF a.err # "" THEN [k |-> k, err |-> <<a.err>>]
  ELSE IF ~up THEN [k |-> a.k, err |-> Nil]
  ELSE IF "LinkSetUp" \in f THEN [k |-> a.k, err |-> <<EPerm>>]
  ELSE [k |-> KLinkSetUp(a.k, KLinkByName(a.k, c, v.Name)), err |-> Nil]

VethAddL(k, c, name, peer, up, f) ==
  LET v == [Name |-> name, Peer |-> peer]
      r == VethAddMethodL(k, c, v, up, f)
  IN IF IsErr(r.err) THEN [k |-> r.k, veth |-> NilVethL, err |-> r.err]
     ELSE [k |-> r.k, veth |-> v, err |-> Nil]

VethDelete(k, c, name, f) == LinkDel(k, c, name, f)

(* ------------------- veth.go: the Veth handle ------------------------- *)
\* a *Veth: nil, or the two netlink.Link snapshots (Peer 0 is a nil Peer)
NilVeth == [nil |-> TRUE, Link |-> 0, Peer |-> 0, Name |-> "", PeerName |-> ""]

VethGetLinkByName(k, c, name) ==
  LET l == KLinkByName(k, c, name) IN
  IF l = 0
  THEN [link |-> 0, err |-> <<"VethGetLinkByName(", name, "): ", ENotFound>>]
  ELSE IF k.links[l].kind # "veth"
  THEN [link |-> 0, err |-> <<"VethGetLinkByName(", name, "): not veth">>]
  ELSE [link |-> l, err |-> Nil]

VethGetByName(k, c, name) ==
  LET a == VethGetLinkByName(k, c, name)
      p == VethGetPeerLinkByName(k, c, name)
  IN IF IsErr(a.err)
     THEN [veth |-> NilVeth, panic |-> FALSE,
           err |-> <<"VethGetLinkByName(", name, ") ">> \o a.err]
     ELSE IF p.panic THEN [veth |-> NilVeth, panic |-> TRUE, err |-> Nil]
     ELSE IF ~IsErr(p.err)
     THEN [veth |-> [nil |-> FALSE, Link |-> a.link, Peer |-> p.link,
                     Name |-> name, PeerName |-> k.links[p.link].name],
           panic |-> FALSE, err |-> Nil]
     ELSE IF IsNotFound(p.err)
     THEN [veth |-> [nil |-> FALSE, Link |-> a.link, Peer |-> 0,
                     Name |-> name, PeerName |-> ""],
           panic |-> FALSE, err |-> Nil]
     ELSE [veth |-> NilVeth, panic |-> FALSE,
           err |-> <<"VethGetPeerLinkByName(", name, "): ">> \o p.err]

\* a VethAdd that brings both endpoints up whatever up says
VethAdd_upIgnored(k, c, name, peer, up, f) ==
  LET a == KVethAdd(k, c, name, peer)
      l == KLinkByName(a.k, c, name)
      q == KLinkByName(a.k, c, peer)
      v == [nil |-> FALSE, Link |-> l, Peer |-> q,
            Name |-> name, PeerName |-> peer]
  IN IF "LinkAdd" \in f THEN [k |-> k, veth |-> NilVeth, err |-> <<EPerm>>]
     ELSE IF a.err # "" THEN [k |-> k, veth |-> NilVeth, err |-> <<a.err>>]
     ELSE [k |-> KLinkSetUp(KLinkSetUp(a.k, l), q), veth |-> v, err |-> Nil]

\* a VethAdd that gives up after the first failed LinkSetUp
VethAdd_stopAtFirstUp(k, c, name, peer, up, f) ==
  LET a == KVethAdd(k, c, name, peer)
      l == KLinkByName(a.k, c, name)
      q == KLinkByName(a.k, c, peer)
      v == [nil |-> FALSE, Link |-> l, Peer |-> q,
            Name |-> name, PeerName |-> peer]
      k1 == IF up /\ "LinkSetUp" \notin f THEN KLinkSetUp(a.k, l) ELSE a.k
      k2 == IF up /\ "LinkSetUpPeer" \notin f THEN KLinkSetUp(k1, q) ELSE k1
  IN IF "LinkAdd" \in f THEN [k |-> k, veth |-> NilVeth, err |-> <<EPerm>>]
     ELSE IF a.err # "" THEN [k |-> k, veth |-> NilVeth, err |-> <<a.err>>]
     ELSE IF up /\ "LinkSetUp" \in f
     THEN [k |-> a.k, veth |-> v, err |-> <<"LinkSetUp(", name, "): ", EPerm>>]
     ELSE IF up /\ "LinkSetUpPeer" \in f
     THEN [k |-> k2, veth |-> v, err |-> <<"LinkSetUp(", peer, "): ", EPerm>>]
     ELSE [k |-> k2, veth |-> v, err |-> Nil]

\* VethAdd(name, peer, up): creates the pair and brings up both endpoints;
\* a failed LinkSetUp comes back with the handle and an error
VethAdd(k, c, name, peer, up, f) ==
  LET a == KVethAdd(k, c, name, peer)
      l == KLinkByName(a.k, c, name)
      q == KLinkByName(a.k, c, peer)
      v == [nil |-> FALSE, Link |-> l, Peer |-> q,
            Name |-> name, PeerName |-> peer]
      k1 == IF up /\ "LinkSetUp" \notin f THEN KLinkSetUp(a.k, l) ELSE a.k
      k2 == IF up /\ "LinkSetUpPeer" \notin f THEN KLinkSetUp(k1, q) ELSE k1
  IN IF "LinkAdd" \in f THEN [k |-> k, veth |-> NilVeth, err |-> <<EPerm>>]
     ELSE IF a.err # "" THEN [k |-> k, veth |-> NilVeth, err |-> <<a.err>>]
     ELSE IF up /\ "LinkSetUpPeer" \in f
     THEN [k |-> k2, veth |-> v, err |-> <<"LinkSetUp(", peer, "): ", EPerm>>]
     ELSE IF up /\ "LinkSetUp" \in f
     THEN [k |-> k2, veth |-> v, err |-> <<"LinkSetUp(", name, "): ", EPerm>>]
     ELSE [k |-> k2, veth |-> v, err |-> Nil]

\* Veth.Name() and Veth.PeerName(): a nil receiver is dereferenced
VethName(v) == [panic |-> v.nil, name |-> v.Name]
VethPeerName(v) ==
  [panic |-> v.nil, name |-> IF v.Peer = 0 THEN "" ELSE v.PeerName]

Self == TRUE
Up == TRUE

VethIpAddrReplace(k, v, intf, addr, up, f) ==
  LET l == IF intf = Self THEN v.Link ELSE v.Peer
      a == IF l = 0 THEN [k |-> k, err |-> ""] ELSE KAddrReplace(k, l, addr)
  IN IF l = 0
     THEN [k |-> k,
           err |-> <<"IpAddrReplace(", v.Name,
                     "): peer belongs to a different namespace">>]
     ELSE IF "AddrReplace" \in f THEN [k |-> k, err |-> <<EPerm>>]
     ELSE IF ~up THEN [k |-> a.k, err |-> Nil]
     ELSE IF "LinkSetUp" \in f THEN [k |-> a.k, err |-> <<EPerm>>]
     ELSE [k |-> KLinkSetUp(a.k, l), err |-> Nil]

(* ----------------------------- bridge.go ------------------------------ *)
Add == TRUE
Del == FALSE
Down == FALSE

BridgeGetByName(k, c, name) ==
  LET l == KLinkByName(k, c, name) IN
  IF l = 0
  THEN [br |-> 0, err |-> <<"BridgeGetByName(", name, "): ", ENotFound>>]
  ELSE IF k.links[l].kind # "bridge"
  THEN [br |-> 0, err |-> <<"BridgeGetByName(", name, "): not a bridge">>]
  ELSE [br |-> l, err |-> Nil]

\* ioctl(SIOCSIFBR, BRCTL_ADD_BRIDGE | BRCTL_DEL_BRIDGE): the errno text,
\* "" for errno 0.  A bridge that is up cannot be deleted.
KBridgeIoctl(k, c, name, op) ==
  LET l == KLinkByName(k, c, name) IN
  IF op = Add THEN KLinkAdd(k, c, name, "bridge")
  ELSE IF l = 0 \/ k.links[l].kind # "bridge" THEN [k |-> k, err |-> ENxio]
  ELSE IF k.links[l].up THEN [k |-> k, err |-> EBusy]
  ELSE [k |-> KLinkDel(k, l), err |-> ""]

\* a bridgeModify that returns the new bridge without br.IfUp()
bridgeModify_noIfUp(k, c, name, op, up, f) ==
  LET io == KBridgeIoctl(k, c, name, op)
      g == BridgeGetByName(io.k, c, name)
      banner == <<"BridgeAdd(", name, "): ">>
  IN IF "SIOCSIFBR" \in f THEN [k |-> k, br |-> 0, err |-> banner \o <<EPerm>>]
     ELSE IF io.err # "" THEN [k |-> k, br |-> 0, err |-> banner \o <<io.err>>]
     ELSE IF op # Add THEN [k |-> io.k, br |-> 0, err |-> Nil]
     ELSE IF IsErr(g.err) THEN [k |-> io.k, br |-> 0, err |-> g.err]
     ELSE [k |-> io.k, br |-> g.br, err |-> Nil]

\* with op = Add and up = false the code falls through to the last return
\* and reports errno 0 as an error
bridgeModify(k, c, name, op, up, f) ==
  LET io == KBridgeIoctl(k, c, name, op)
      g == BridgeGetByName(io.k, c, name)
      banner == <<"BridgeAdd(", name, "): ">>
  IN IF "SIOCSIFBR" \in f THEN [k |-> k, br |-> 0, err |-> banner \o <<EPerm>>]
     ELSE IF io.err # "" THEN [k |-> k, br |-> 0, err |-> banner \o <<io.err>>]
     ELSE IF op # Add THEN [k |-> io.k, br |-> 0, err |-> Nil]
     ELSE IF IsErr(g.err) THEN [k |-> io.k, br |-> 0, err |-> g.err]
     ELSE IF ~up THEN [k |-> io.k, br |-> 0, err |-> banner \o <<"errno 0">>]
     ELSE IF "LinkSetUp" \in f THEN [k |-> io.k, br |-> g.br, err |-> <<EPerm>>]
     ELSE [k |-> KLinkSetUp(io.k, g.br), br |-> g.br, err |-> Nil]

BridgeAdd(k, c, name, up, f) == bridgeModify(k, c, name, Add, up, f)

\* a BridgeDelete that does not bring the bridge down first
BridgeDelete_noIfDown(k, c, name, f) ==
  LET g == BridgeGetByName(k, c, name)
      banner == <<"BridgeDelete(", name, "): ">>
      r == bridgeModify(k, c, name, Del, Down, f)
  IN IF IsErr(g.err)
     THEN [k |-> k, err |-> banner \o <<"BridgeGetByName(): ">> \o g.err]
     ELSE [k |-> r.k, err |-> r.err]

BridgeDelete(k, c, name, f) ==
  LET g == BridgeGetByName(k, c, name)
      banner == <<"BridgeDelete(", name, "): ">>
      r == bridgeModify(KLinkSetDown(k, g.br), c, name, Del, Down, f)
  IN IF IsErr(g.err)
     THEN [k |-> k, err |-> banner \o <<"BridgeGetByName(): ">> \o g.err]
     ELSE IF "LinkSetDown" \in f
     THEN [k |-> k, err |-> banner \o <<"LinkSetDown(): ", EPerm>>]
     ELSE [k |-> r.k, err |-> r.err]

\* a BindIf that refuses an interface that already has a master
BridgeBindIf_noRebind(k, c, br, ifName, f) ==
  LET l == KLinkByName(k, c, ifName)
      m == IF l = 0 THEN [k |-> k, err |-> ""] ELSE KLinkSetMaster(k, l, br)
  IN IF l = 0 THEN [k |-> k, err |-> <<"BindIf(): LinkByName(): ", ENotFound>>]
     ELSE IF "LinkSetMaster" \in f THEN [k |-> k, err |-> <<EPerm>>]
     ELSE IF k.links[l].master # 0 THEN [k |-> k, err |-> <<EBusy>>]
     ELSE [k |-> m.k, err |-> KErr(m.err)]

\* Bridge.BindIf
BridgeBindIf(k, c, br, ifName, f) ==
  LET l == KLinkByName(k, c, ifName)
      m == IF l = 0 THEN [k |-> k, err |-> ""] ELSE KLinkSetMaster(k, l, br)
  IN IF l = 0 THEN [k |-> k, err |-> <<"BindIf(): LinkByName(): ", ENotFound>>]
     ELSE IF "LinkSetMaster" \in f THEN [k |-> k, err |-> <<EPerm>>]
     ELSE [k |-> m.k, err |-> KErr(m.err)]

(* ------------------------------ vrf.go -------------------------------- *)
VrfGetLinkByName(k, c, name) ==
  LET l == KLinkByName(k, c, name) IN
  IF l = 0 THEN [link |-> 0, err |-> <<ENotFound>>]
  ELSE IF k.links[l].kind # "vrf"
  THEN [link |-> 0, err |-> <<"Error: VrfGetByName(", name, "): not VRF">>]
  ELSE [link |-> l, err |-> Nil]

VrfGetByName(k, c, name) ==
  LET r == VrfGetLinkByName(k, c, name)
  IN [vrf |-> r.link, err |-> r.err]

\* VrfAdd(name, tid, up): the master object is created and brought up,
\* the handle of the new VRF is returned
VrfAddUp(k, c, name, tid, up, f) ==
  LET a == KLinkAdd(k, c, name, "vrf")
      l == KLinkByName(a.k, c, name)
  IN IF "LinkAdd" \in f THEN [k |-> k, vrf |-> 0, err |-> <<EPerm>>]
     ELSE IF a.err # "" THEN [k |-> k, vrf |-> 0, err |-> <<a.err>>]
     ELSE IF ~up THEN [k |-> a.k, vrf |-> l, err |-> Nil]
     ELSE IF "LinkSetUp" \in f THEN [k |-> a.k, vrf |-> l, err |-> <<EPerm>>]
     ELSE [k |-> KLinkSetUp(a.k, l), vrf |-> l, err |-> Nil]

\* Vrf.BindIf: bind(master, subordinate), rebinding allowed
VrfBindIf(k, c, vrf, ifName, f) ==
  LET l == KLinkByName(k, c, ifName)
      m == IF l = 0 THEN [k |-> k, err |-> ""] ELSE KLinkSetMaster(k, l, vrf)
  IN IF l = 0 THEN [k |-> k, err |-> <<ENotFound>>]
     ELSE IF "LinkSetMaster" \in f THEN [k |-> k, err |-> <<EPerm>>]
     ELSE [k |-> m.k, err |-> KErr(m.err)]

VrfDelete(k, c, name, f) == LinkDel(k, c, name, f)



(* ------------------------- route.go: routes --------------------------- *)
FLAG_ONLINK == 4
FLAG_PERVASIVE == 2
FlagBits == 3

NilIP == "nil"
NilIPNet == "nil"

\* NHinfo{} and Route{}: the zero values
EmptyNH == [Gw |-> NilIP, Flags |-> 0]
EmptyRoute ==
  [Dst |-> NilIPNet, Gw |-> NilIP, MultiPath |-> <<>>, Flags |-> 0,
   Table |-> 0]

\* NewRoute without the test of len(nh)
NewRoute_noLenTest(dst, nh) ==
  IF dst = NilIPNet
  THEN [route |-> EmptyRoute, err |-> <<"ERROR: NewRoute(): dst is nil">>]
  ELSE [route |-> [EmptyRoute EXCEPT
                     !.Dst = dst,
                     !.MultiPath = [i \in 1..Len(nh) |->
                                      [EmptyNH EXCEPT !.Gw = nh[i]]]],
        err |-> Nil]

NewRoute(dst, nh) ==
  IF dst = NilIPNet
  THEN [route |-> EmptyRoute, err |-> <<"ERROR: NewRoute(): dst is nil">>]
  ELSE IF Len(nh) <= 0
  THEN [route |-> EmptyRoute,
        err |-> <<"ERROR: NewRoute(", dst, "): ", "# of nh is <= 0">>]
  ELSE [route |-> [EmptyRoute EXCEPT
                     !.Dst = dst,
                     !.MultiPath = [i \in 1..Len(nh) |->
                                      [EmptyNH EXCEPT !.Gw = nh[i]]]],
        err |-> Nil]

AddNextHop(r, nh) == [r EXCEPT !.MultiPath = Append(@, nh)]

\* x | b and x &^ b for a one-bit mask b
HasBit(x, b) == (x \div b) % 2 = 1
OrBit(x, b) == IF HasBit(x, b) THEN x ELSE x + b
AndNotBit(x, b) == IF HasBit(x, b) THEN x - b ELSE x

\* An interface{} argument: its dynamic type, whether the pointer in it is
\* nil, and the value it points to or holds.
PtrTypes == {"*Route", "*NHinfo"}

\* the type switch shared by the four mutators: flags is the new value of
\* v.Flags
FlagSwitch(i, flags, name) ==
  IF i.type \in PtrTypes
  THEN IF i.isnil THEN [val |-> i.val, panic |-> TRUE, err |-> Nil]
       ELSE [val |-> [i.val EXCEPT !.Flags = flags], panic |-> FALSE,
             err |-> Nil]
  ELSE [val |-> i.val, panic |-> FALSE,
        err |-> <<"ERROR: ", name, "(): wrong type">>]

SetBitOnlink(x) == OrBit(x, FLAG_ONLINK)
ClearBitOnlink(x) == AndNotBit(x, FLAG_ONLINK)
SetBitPervasive(x) == OrBit(x, FLAG_PERVASIVE)
\* x &= FLAG_PERVASIVE in place of x &^= FLAG_PERVASIVE
ClearBitPervasive_and(x) == IF HasBit(x, FLAG_PERVASIVE) THEN FLAG_PERVASIVE ELSE 0

ClearBitPervasive(x) == AndNotBit(x, FLAG_PERVASIVE)

SetOnlink(i) == FlagSwitch(i, SetBitOnlink(i.val.Flags), "ClearOnlink")
ClearOnlink(i) == FlagSwitch(i, ClearBitOnlink(i.val.Flags), "ClearOnlink")
SetPervasive(i) == FlagSwitch(i, SetBitPervasive(i.val.Flags), "SetPervasive")
ClearPervasive(i) == FlagSwitch(i, ClearBitPervasive(i.val.Flags),
                                "ClearPervasive")


(* ------------------- vrf.go and route.go: routes in tables ------------- *)
\* VrfAdd(name, tid): LinkAdd of a VRF with its table id
VrfAdd(k, c, name, tid, f) ==
  LET a == KLinkAdd(k, c, name, "vrf")
      l == KLinkByName(a.k, c, name)
  IN IF "LinkAdd" \in f THEN [k |-> k, err |-> <<EPerm>>]
     ELSE IF a.err # "" THEN [k |-> k, err |-> <<a.err>>]
     ELSE [k |-> [a.k EXCEPT !.tids[l] = tid], err |-> Nil]

\* Vrf.Tid of the *Vrf that VrfGetByName builds from link l
VrfTid(k, l) == k.tids[l]

VrfGetRoutesByTid(k, tid, type, f) ==
  IF "RouteList" \in f THEN [routes |-> {}, err |-> <<EPerm>>]
  ELSE [routes |-> KRouteList(k, tid, type), err |-> Nil]

\* a VrfGetRoutesByName whose error branch uses its argument name
VrfGetRoutesByName_nameArg(k, c, name, type, f) ==
  LET g == VrfGetByName(k, c, name)
      r == VrfGetRoutesByTid(k, VrfTid(k, g.vrf), type, f)
  IN IF ~IsErr(g.err)
     THEN [routes |-> r.routes, panic |-> FALSE, err |-> r.err]
     ELSE [routes |-> {}, panic |-> FALSE,
           err |-> <<"Error: VrfGetRoutesByName(", name, "): ">> \o g.err]

\* the error branch reads vrf.Name of the nil *Vrf that VrfGetByName
\* returned with its error
VrfGetRoutesByName(k, c, name, type, f) ==
  LET g == VrfGetByName(k, c, name)
      r == VrfGetRoutesByTid(k, VrfTid(k, g.vrf), type, f)
  IN IF ~IsErr(g.err)
     THEN [routes |-> r.routes, panic |-> FALSE, err |-> r.err]
     ELSE [routes |-> {}, panic |-> TRUE, err |-> Nil]

VrfGetIPv4routesByName(k, c, name, f) ==
  LET g == VrfGetByName(k, c, name)
      r == VrfGetRoutesByTid(k, VrfTid(k, g.vrf), "unicast", f)
  IN IF ~IsErr(g.err)
     THEN [routes |-> r.routes, panic |-> FALSE, err |-> r.err]
     ELSE [routes |-> {}, panic |-> FALSE, err |-> g.err]

VrfGetIPv4localRoutes(k, c, vrf, f) == VrfGetRoutesByName(k, c, vrf, "local", f)

\* a VrfAddRouteByName that leaves r.Table as the caller set it
VrfAddRouteByName_keepTable(k, c, name, r, f) ==
  LET g == VrfGetByName(k, c, name)
      a == KRouteAdd(k, r)
  IN IF IsErr(g.err)
     THEN [k |-> k, route |-> r,
           err |-> <<"Error: VrfAddRouteByName(", name, "): VrfGetByName(): ">>
                   \o g.err]
     ELSE IF "RouteAdd" \in f THEN [k |-> k, route |-> r, err |-> <<EPerm>>]
     ELSE [k |-> a.k, route |-> r, err |-> KErr(a.err)]

\* r.Table = int(vrf.Tid); netlink.RouteAdd(r): the caller's route is
\* written to before the kernel is asked
VrfAddRouteByName(k, c, name, r, f) ==
  LET g == VrfGetByName(k, c, name)
      r1 == [r EXCEPT !.Table = VrfTid(k, g.vrf)]
      a == KRouteAdd(k, r1)
  IN IF IsErr(g.err)
     THEN [k |-> k, route |-> r,
           err |-> <<"Error: VrfAddRouteByName(", name, "): VrfGetByName(): ">>
                   \o g.err]
     ELSE IF "RouteAdd" \in f THEN [k |-> k, route |-> r1, err |-> <<EPerm>>]
     ELSE [k |-> a.k, route |-> r1, err |-> KErr(a.err)]

\* AddRoute, DeleteRoute, ReplaceRoute: r.Table = 0, then the kernel call
AddRoute(k, r, f) ==
  LET r1 == [r EXCEPT !.Table = 0]
      a == KRouteAdd(k, r1)
  IN IF "RouteAdd" \in f THEN [k |-> k, route |-> r1, err |-> <<EPerm>>]
     ELSE [k |-> a.k, route |-> r1, err |-> KErr(a.err)]

DeleteRoute(k, r, f) ==
  LET r1 == [r EXCEPT !.Table = 0]
      a == KRouteDel(k, r1)
  IN IF "RouteDel" \in f THEN [k |-> k, route |-> r1, err |-> <<EPerm>>]
     ELSE [k |-> a.k, route |-> r1, err |-> KErr(a.err)]

ReplaceRoute(k, r, f) ==
  LET r1 == [r EXCEPT !.Table = 0]
      a == KRouteReplace(k, r1)
  IN IF "RouteReplace" \in f THEN [k |-> k, route |-> r1, err |-> <<EPerm>>]
     ELSE [k |-> a.k, route |-> r1, err |-> KErr(a.err)]


(* ------------------------- process state ------------------------------ *)
veth0 == "ns1-ns2"
veth1 == "ns2-ns1"
ns1 == "ns1"
ns2 == "ns2"
ns1ns2a == "192.168.1.1/24"
ns2ns1a == "192.168.1.2/24"

NoCall ==
  [op |-> "none", ifName |-> "", nsName |-> "", entry |-> "none",
   failed |-> {}, calls |-> <<>>, err |-> Nil]

LocInit ==
  [veth |-> NilVethL, orig |-> "none", origD |-> "none", d1 |-> "none",
   d2 |-> "none", defer2 |-> FALSE, br |-> 0, vrf |-> 0, i |-> 0,
   v |-> NilVeth, rt |-> EmptyRoute, nhi |-> EmptyNH, pinned |-> FALSE]

ProcInit ==
  /\ cur = Root
  /\ pc = "idle"
  /\ cmd = "none"
  /\ ret = "none"
  /\ loc = LocInit
  /\ flt = {}
  /\ nfault = 0
  /\ trace = <<>>
  /\ hist = <<>>
  /\ last = NoCall

procVars == <<pc, cmd, ret, loc, flt, nfault, trace, hist>>

(* ------------- the library called directly (as the tests do) ---------- *)
UnsetPoints == {"GetMyHandle", "SetByName", "LinkSetNsPid", "SetByHandle"}
SetNsPoints == {"GetHandleByName", "LinkSetNsFd"}
LibIfNames == {veth0}

InitLib == kern = EmptyKernel /\ ProcInit

\* the caller creates its one veth pair, in whatever namespace it is in
LibVethAdd ==
  LET r == VethAddL(kern, cur, veth0, veth1, TRUE, {}) IN
  /\ Links(kern) = {}
  /\ kern' = r.k
  /\ last' = [NoCall EXCEPT !.op = "VethAdd", !.err = r.err]
  /\ UNCHANGED <<cur, procVars>>

LibVethDelete ==
  \E name \in LibIfNames :
     LET r == VethDelete(kern, cur, name, {}) IN
     /\ kern' = r.k
     /\ last' = [NoCall EXCEPT !.op = "VethDelete", !.err = r.err]
     /\ UNCHANGED <<cur, procVars>>

LibAddByName ==
  \E n \in NsNames, reuse \in BOOLEAN :
     LET r == NsAddByName(kern, n, reuse, {}) IN
     /\ kern' = r.k
     /\ last' = [NoCall EXCEPT !.op = "AddByName", !.err = r.err]
     /\ UNCHANGED <<cur, procVars>>

\* the caller enters a namespace it holds a handle to
LibSet ==
  \E h \in {Root} \cup kern.nsNamed :
     LET r == NsSet(cur, h, {}) IN
     /\ cur' = r.cur
     /\ last' = [NoCall EXCEPT !.op = "Set", !.err = r.err]
     /\ UNCHANGED <<kern, procVars>>

LibIfSetNS ==
  \E ifName \in LibIfNames, nsName \in NsNames, f \in SUBSET SetNsPoints :
     LET r == IfSetNS(kern, cur, ifName, nsName, f) IN
     /\ kern' = r.k
     /\ last' = [op |-> "IfSetNS", ifName |-> ifName, nsName |-> nsName,
                 handles |-> IfSetNSHandles(kern, cur, ifName, nsName, f),
                 err |-> r.err]
     /\ UNCHANGED <<cur, procVars>>

LibIfUnsetNS ==
  \E ifName \in LibIfNames, nsName \in NsNames, f \in SUBSET UnsetPoints :
     LET r == IfUnsetNS(kern, cur, ifName, nsName, f) IN
     /\ kern' = r.k
     /\ cur' = r.cur
     /\ last' = [op |-> "IfUnsetNS", ifName |-> ifName, nsName |-> nsName,
                 entry |-> cur, failed |-> r.failed, calls |-> r.calls,
                 handles |-> IfUnsetNSHandles(kern, cur, ifName, nsName, f),
                 err |-> r.err]
     /\ UNCHANGED procVars

NextLib ==
  \/ LibVethAdd
  \/ LibVethDelete
  \/ LibAddByName
  \/ LibSet
  \/ LibIfSetNS
  \/ LibIfUnsetNS

SpecLib == InitLib /\ [][NextLib]_vars

(* ------------------------------- C1 ----------------------------------- *)
\* C1: when the switch back to the saved handle does not fail, the
\* namespace that is current when IfUnsetNS returns is the one that was
\* current when it was called; and a failed move of the interface to the
\* root namespace is still followed by the switch back.
C1_SwitchBackRestores ==
  last.op = "IfUnsetNS" =>
    /\ ("SetByHandle" \notin last.failed => cur = last.entry)
    /\ ("IfSetNSbyPid" \in last.failed =>
          last.calls[Len(last.calls)] = "SetByHandle")

C1_Witness ==
  /\ last.op = "IfUnsetNS"
  /\ last.entry # last.nsName
  /\ last.failed = {"IfSetNSbyPid"}
  /\ last.calls[Len(last.calls)] = "SetByHandle"
  /\ cur = last.entry

(* ------------------------------- C3 ----------------------------------- *)
ContextLost(r) == r.failed \cap {"SetByName", "SetByHandle"} # {}
MoveFailedContextRestored(r) == r.failed = {"IfSetNSbyPid"}

\* C3: whatever the interface, the namespace and the failing steps, the
\* error IfUnsetNS returns when the namespace context is lost (entering
\* nsName failed, or the switch back failed, with or without a failed
\* move) differs from the error it returns when only the move failed and
\* the context was restored.
C3_ContextLostReportedDistinctly ==
  \A ifName \in LibIfNames, nsName \in NsNames :
    \A f1 \in SUBSET UnsetPoints, f2 \in SUBSET UnsetPoints :
       LET r1 == IfUnsetNS(kern, cur, ifName, nsName, f1)
           r2 == IfUnsetNS(kern, cur, ifName, nsName, f2)
       IN (ContextLost(r1) /\ MoveFailedContextRestored(r2))
            => r1.err # r2.err

C3_Witness ==
  /\ last.op = "IfUnsetNS"
  /\ last.failed = {"IfSetNSbyPid", "SetByHandle"}
  /\ Frag(last.err, "IfSetNSbyPid(")
  /\ Frag(last.err, "): failed to switch back namespace: ")
  /\ \E f2 \in SUBSET UnsetPoints :
        LET r2 == IfUnsetNS(kern, cur, last.ifName, last.nsName, f2)
        IN MoveFailedContextRestored(r2) /\ r2.err # last.err


(* =================== running the example programs ===================== *)
Ev(op, arg, err) == [op |-> op, arg |-> arg, ok |-> ~IsErr(err)]

\* the sets of kernel calls of one operation that fail by injection
FaultSets(points) ==
  {f \in SUBSET points : Cardinality(f) <= MaxFaults - nfault}

\* one statement of the program: the kernel as it leaves it, the current
\* namespace, the next statement, the locals and what was logged
Step(k, c, npc, l, ev, f) ==
  /\ kern' = k
  /\ cur' = c
  /\ pc' = npc
  /\ loc' = l
  /\ trace' = Append(trace, ev)
  /\ flt' = flt \cup {<<pc, p>> : p \in f}
  /\ nfault' = nfault + Cardinality(f)
  /\ UNCHANGED <<cmd, ret, hist, last>>

\* a failure branch that goes to errExit without calling deleteNetwork()
CallDelete_exitOnly(k, c, ev, f) ==
  /\ kern' = ExitGC(k)
  /\ cur' = c
  /\ pc' = "idle"
  /\ cmd' = "none"
  /\ ret' = "none"
  /\ loc' = LocInit
  /\ trace' = <<>>
  /\ flt' = {}
  /\ nfault' = nfault + Cardinality(f)
  /\ hist' = Append(hist,
               [cmd |-> cmd, exit |-> 1, cur |-> c,
                flt |-> flt \cup {<<pc, p>> : p \in f},
                trace |-> Append(trace, ev), kexit |-> k,
                kern |-> ExitGC(k)])
  /\ UNCHANGED last

\* deleteNetwork() called on a failure branch of addNetwork, errExit next
CallDelete(k, c, ev, f) ==
  /\ kern' = k
  /\ cur' = c
  /\ pc' = "d_Get"
  /\ ret' = "fatal"
  /\ trace' = Append(trace, ev)
  /\ flt' = flt \cup {<<pc, p>> : p \in f}
  /\ nfault' = nfault + Cardinality(f)
  /\ UNCHANGED <<cmd, loc, hist, last>>

\* the process ends: os.Exit(0) in main, os.Exit(1) in errExit, status 2
\* on a panic.  The kernel drops the namespaces only the process held.
Exit(k, c, status, ev, f) ==
  /\ kern' = ExitGC(k)
  /\ cur' = c
  /\ pc' = "idle"
  /\ cmd' = "none"
  /\ ret' = "none"
  /\ loc' = LocInit
  /\ trace' = <<>>
  /\ flt' = {}
  /\ nfault' = nfault + Cardinality(f)
  /\ hist' = Append(hist,
               [cmd |-> cmd, exit |-> status, cur |-> c,
                flt |-> flt \cup {<<pc, p>> : p \in f},
                trace |-> Append(trace, ev), kexit |-> k,
                kern |-> ExitGC(k)])
  /\ UNCHANGED last

(* ---------- examples/example1.go: the ns1/ns2 topology ----------------- *)
InitNs == kern = EmptyKernel /\ ProcInit

\* a main that dispatches without runtime.LockOSThread()
NsMain_unpinned ==
  /\ pc = "idle"
  /\ Len(hist) < MaxRuns
  /\ \E c \in {"add", "delete"} :
       /\ cmd' = c
       /\ pc' = IF c = "add" THEN "a_VethGetByName" ELSE "d_Get"
       /\ ret' = IF c = "add" THEN "none" ELSE "main"
  /\ cur' = Root
  /\ loc' = LocInit
  /\ flt' = {}
  /\ trace' = <<>>
  /\ UNCHANGED <<kern, nfault, hist, last>>

\* main: example <add | delete>.  runtime.LockOSThread() is its first
\* statement; the deferred UnlockOSThread() is skipped by os.Exit and runs
\* only while a panic unwinds, when the process is already ending.
NsMain ==
  /\ pc = "idle"
  /\ Len(hist) < MaxRuns
  /\ \E c \in {"add", "delete"} :
       /\ cmd' = c
       /\ pc' = IF c = "add" THEN "a_VethGetByName" ELSE "d_Get"
       /\ ret' = IF c = "add" THEN "none" ELSE "main"
  /\ cur' = Root
  /\ loc' = [LocInit EXCEPT !.pinned = TRUE]
  /\ flt' = {}
  /\ trace' = <<>>
  /\ UNCHANGED <<kern, nfault, hist, last>>

a_VethGetByName ==
  /\ pc = "a_VethGetByName"
  /\ LET r == VethGetByNameL(kern, cur, veth0)
         ev == Ev("VethGetByName", veth0, r.err)
     IN IF r.panic THEN Exit(kern, cur, 2, [ev EXCEPT !.ok = FALSE], {})
        ELSE IF ~IsErr(r.err)
        THEN Step(kern, cur, "a_AddByName1", [loc EXCEPT !.veth = r.veth], ev, {})
        ELSE IF IsNotFound(r.err)
        THEN Step(kern, cur, "a_VethAdd", loc, ev, {})
        ELSE Exit(kern, cur, 1, ev, {})

a_VethAdd ==
  /\ pc = "a_VethAdd"
  /\ \E f \in FaultSets({"LinkAdd", "LinkSetUp"}) :
       LET r == VethAddL(kern, cur, veth0, veth1, TRUE, f)
           ev == Ev("VethAdd", veth0, r.err)
       IN IF IsErr(r.err) THEN Exit(r.k, cur, 1, ev, f)
          ELSE Step(r.k, cur, "a_AddByName1", [loc EXCEPT !.veth = r.veth], ev, f)

a_AddByName1 ==
  /\ pc = "a_AddByName1"
  /\ \E reuse \in BOOLEAN, f \in FaultSets({"AddByName"}) :
       LET r == NsAddByName(kern, ns1, reuse, f)
           ev == Ev("AddByName", ns1, r.err)
       IN IF IsErr(r.err) THEN Exit(r.k, cur, 1, ev, f)
          ELSE Step(r.k, cur, "a_AddByName2", [loc EXCEPT !.d1 = r.h], ev, f)

a_AddByName2 ==
  /\ pc = "a_AddByName2"
  /\ \E reuse \in BOOLEAN, f \in FaultSets({"AddByName"}) :
       LET r == NsAddByName(kern, ns2, reuse, f)
           ev == Ev("AddByName", ns2, r.err)
       IN IF IsErr(r.err) THEN Exit(r.k, cur, 1, ev, f)
          ELSE Step(r.k, cur, "a_IfSetNS1", [loc EXCEPT !.d2 = r.h], ev, f)

a_IfSetNS1 ==
  /\ pc = "a_IfSetNS1"
  /\ \E f \in FaultSets(SetNsPoints) :
       LET r == IfSetNS(kern, cur, loc.veth.Name, ns1, f)
           ev == Ev("IfSetNS", ns1, r.err)
       IN IF IsErr(r.err) THEN CallDelete(r.k, cur, ev, f)
          ELSE Step(r.k, cur, "a_IfSetNS2", loc, ev, f)

a_IfSetNS2 ==
  /\ pc = "a_IfSetNS2"
  /\ \E f \in FaultSets(SetNsPoints) :
       LET r == IfSetNS(kern, cur, loc.veth.Peer, ns2, f)
           ev == Ev("IfSetNS", ns2, r.err)
       IN IF IsErr(r.err) THEN CallDelete(r.k, cur, ev, f)
          ELSE Step(r.k, cur, "a_Get", loc, ev, f)

a_Get ==
  /\ pc = "a_Get"
  /\ \E f \in FaultSets({"Get"}) :
       LET r == NsGet(cur, f)
           ev == Ev("Get", "", r.err)
       IN IF IsErr(r.err) THEN CallDelete(kern, cur, ev, f)
          ELSE Step(kern, cur, "a_Set1", [loc EXCEPT !.orig = r.h], ev, f)

a_Set1 ==
  /\ pc = "a_Set1"
  /\ \E f \in FaultSets({"Set"}) :
       LET r == NsSet(cur, loc.d1, f)
           ev == Ev("Set", ns1, r.err)
       IN IF IsErr(r.err) THEN CallDelete(kern, r.cur, ev, f)
          ELSE Step(kern, r.cur, "a_Lo1", loc, ev, f)

a_Lo1 ==
  /\ pc = "a_Lo1"
  /\ \E f \in FaultSets({"LinkSetUp"}) :
       LET r == IfUpByName(kern, cur, "lo", f)
       IN Step(r.k, cur, "a_Addr1", loc, Ev("IfUpByName", "lo", r.err), f)

a_Addr1 ==
  /\ pc = "a_Addr1"
  /\ \E f \in FaultSets({"AddrAdd", "LinkSetUp"}) :
       LET r == IpAddrAdd(kern, cur, veth0, ns1ns2a, TRUE, f)
       IN Step(r.k, cur, "a_Set2", loc, Ev("IpAddrAdd", veth0, r.err), f)

a_Set2 ==
  /\ pc = "a_Set2"
  /\ \E f \in FaultSets({"Set"}) :
       LET r == NsSet(cur, loc.d2, f)
           ev == Ev("Set", ns2, r.err)
       IN IF IsErr(r.err) THEN CallDelete(kern, r.cur, ev, f)
          ELSE Step(kern, r.cur, "a_Lo2", loc, ev, f)

a_Lo2 ==
  /\ pc = "a_Lo2"
  /\ \E f \in FaultSets({"LinkSetUp"}) :
       LET r == IfUpByName(kern, cur, "lo", f)
       IN Step(r.k, cur, "a_Addr2", loc, Ev("IfUpByName", "lo", r.err), f)

a_Addr2 ==
  /\ pc = "a_Addr2"
  /\ \E f \in FaultSets({"AddrAdd", "LinkSetUp"}) :
       LET r == IpAddrAdd(kern, cur, veth1, ns2ns1a, TRUE, f)
       IN Step(r.k, cur, "a_OrigSet", loc, Ev("IpAddrAdd", veth1, r.err), f)

\* the last statement of addNetwork; main then ends with os.Exit(0)
a_OrigSet ==
  /\ pc = "a_OrigSet"
  /\ \E f \in FaultSets({"Set"}) :
       LET r == NsSet(cur, loc.orig, f)
       IN Exit(kern, r.cur, 0, Ev("orig.Set", "", r.err), f)

d_Get ==
  /\ pc = "d_Get"
  /\ \E f \in FaultSets({"Get"}) :
       LET r == NsGet(cur, f)
           ev == Ev("Get", "", r.err)
       IN IF IsErr(r.err) THEN Exit(kern, cur, 1, ev, f)
          ELSE Step(kern, cur, "d_GetByName1", [loc EXCEPT !.origD = r.h], ev, f)

d_GetByName1 ==
  /\ pc = "d_GetByName1"
  /\ \E f \in FaultSets({"GetByName"}) :
       LET r == NsGetByName(kern, ns1, f)
           ev == Ev("GetByName", ns1, r.err)
       IN IF IsErr(r.err) THEN Step(kern, cur, "d_GetByName2", loc, ev, f)
          ELSE Step(kern, cur, "d_Set1", [loc EXCEPT !.d1 = r.h], ev, f)

d_Set1 ==
  /\ pc = "d_Set1"
  /\ \E f \in FaultSets({"Set"}) :
       LET r == NsSet(cur, loc.d1, f)
           ev == Ev("Set", ns1, r.err)
       IN IF IsErr(r.err) THEN Step(kern, r.cur, "d_Delete1", loc, ev, f)
          ELSE Step(kern, r.cur, "d_IfUnsetNS1", loc, ev, f)

d_IfUnsetNS1 ==
  /\ pc = "d_IfUnsetNS1"
  /\ \E f \in FaultSets(UnsetPoints) :
       LET r == IfUnsetNS(kern, cur, veth0, loc.d1, f)
       IN Step(r.k, r.cur, "d_Delete1", loc, Ev("IfUnsetNS", veth0, r.err), f)

d_Delete1 ==
  /\ pc = "d_Delete1"
  /\ \E f \in FaultSets({"Delete"}) :
       LET r == NsDelete(kern, loc.d1, f)
       IN Step(r.k, cur, "d_GetByName2", loc, Ev("Delete", ns1, r.err), f)

d_GetByName2 ==
  /\ pc = "d_GetByName2"
  /\ \E f \in FaultSets({"GetByName"}) :
       LET r == NsGetByName(kern, ns2, f)
           ev == Ev("GetByName", ns2, r.err)
       IN IF IsErr(r.err) THEN Step(kern, cur, "d_OrigSet", loc, ev, f)
          ELSE Step(kern, cur, "d_Set2",
                    [loc EXCEPT !.d2 = r.h, !.defer2 = TRUE], ev, f)

d_Set2 ==
  /\ pc = "d_Set2"
  /\ \E f \in FaultSets({"Set"}) :
       LET r == NsSet(cur, loc.d2, f)
           ev == Ev("Set", ns2, r.err)
       IN IF IsErr(r.err) THEN Step(kern, r.cur, "d_Delete2", loc, ev, f)
          ELSE Step(kern, r.cur, "d_IfUnsetNS2", loc, ev, f)

d_IfUnsetNS2 ==
  /\ pc = "d_IfUnsetNS2"
  /\ \E f \in FaultSets(UnsetPoints) :
       LET r == IfUnsetNS(kern, cur, veth1, loc.d2, f)
       IN Step(r.k, r.cur, "d_Delete2", loc, Ev("IfUnsetNS", veth1, r.err), f)

d_Delete2 ==
  /\ pc = "d_Delete2"
  /\ \E f \in FaultSets({"Delete"}) :
       LET r == NsDelete(kern, loc.d2, f)
       IN Step(r.k, cur, "d_OrigSet", loc, Ev("Delete", ns2, r.err), f)

d_OrigSet ==
  /\ pc = "d_OrigSet"
  /\ \E f \in FaultSets({"Set"}) :
       LET r == NsSet(cur, loc.origD, f)
           ev == Ev("orig.Set", "", r.err)
       IN IF IsErr(r.err) THEN Exit(kern, r.cur, 1, ev, f)
          ELSE Step(kern, r.cur, "d_VethDelete", loc, ev, f)

d_VethDelete ==
  /\ pc = "d_VethDelete"
  /\ \E f \in FaultSets({"LinkDel"}) :
       LET r == VethDelete(kern, cur, veth0, f)
           ev == Ev("VethDelete", veth0, r.err)
       IN IF IsErr(r.err) THEN Exit(r.k, cur, 1, ev, f)
          ELSE Step(r.k, cur, "d_Return", loc, ev, f)

\* deleteNetwork returns: the deferred netns.DeleteByName(ns2) runs, then
\* the caller goes on: errExit after a failed build, os.Exit(0) in main
d_Return ==
  /\ pc = "d_Return"
  /\ \E f \in FaultSets({"Delete"}) :
       LET r == IF loc.defer2 THEN NsDelete(kern, ns2, f)
                ELSE [k |-> kern, err |-> Nil]
           ev == Ev("return", "deleteNetwork", Nil)
       IN Exit(r.k, cur, IF ret = "fatal" THEN 1 ELSE 0, ev,
               IF loc.defer2 THEN f ELSE {})

NextNs ==
  \/ NsMain
  \/ a_VethGetByName \/ a_VethAdd \/ a_AddByName1 \/ a_AddByName2
  \/ a_IfSetNS1 \/ a_IfSetNS2 \/ a_Get \/ a_Set1 \/ a_Lo1 \/ a_Addr1
  \/ a_Set2 \/ a_Lo2 \/ a_Addr2 \/ a_OrigSet
  \/ d_Get \/ d_GetByName1 \/ d_Set1 \/ d_IfUnsetNS1 \/ d_Delete1
  \/ d_GetByName2 \/ d_Set2 \/ d_IfUnsetNS2 \/ d_Delete2 \/ d_OrigSet
  \/ d_VethDelete \/ d_Return

SpecNs == InitNs /\ [][NextNs]_vars


(* ------------- properties of the ns1/ns2 example ----------------------- *)
Runs == 1..Len(hist)

\* the kernel a completed run started from
StartKern(i) == IF i = 1 THEN EmptyKernel ELSE hist[i - 1].kern

\* no namespace ns1/ns2 and no interface named ns1-ns2 or ns2-ns1 anywhere
NsEnvEmpty(k) ==
  /\ k.nsNamed = {}
  /\ \A id \in Links(k) : k.links[id].name \notin {veth0, veth1}

Failed(tr, op) == \E j \in 1..Len(tr) : tr[j].op = op /\ ~tr[j].ok
Happened(tr, op) == \E j \in 1..Len(tr) : tr[j].op = op

\* the interior steps of the orchestrator: moving a veth endpoint,
\* switching into ns1 or ns2, loopback up, address add, namespace delete
InteriorPoints ==
  {<<"a_IfSetNS1", "LinkSetNsFd">>, <<"a_IfSetNS2", "LinkSetNsFd">>,
   <<"a_Set1", "Set">>, <<"a_Set2", "Set">>,
   <<"a_Lo1", "LinkSetUp">>, <<"a_Lo2", "LinkSetUp">>,
   <<"a_Addr1", "AddrAdd">>, <<"a_Addr2", "AddrAdd">>,
   <<"d_Set1", "Set">>, <<"d_Set2", "Set">>,
   <<"d_IfUnsetNS1", "LinkSetNsPid">>, <<"d_IfUnsetNS2", "LinkSetNsPid">>,
   <<"d_Delete1", "Delete">>, <<"d_Delete2", "Delete">>}

\* C2: on every path of addNetwork/deleteNetwork, a failure at an interior
\* step included, the namespace current when the program finishes is the
\* one that was current when it started (every run starts in the root
\* namespace).
C2_NamespaceRestoredAtFinish ==
  \A i \in Runs :
    hist[i].flt \subseteq InteriorPoints => hist[i].cur = Root

\* C5: from an environment with neither ns1/ns2 nor the veth pair, a
\* second addNetwork ends in the kernel state the first one produced,
\* reports no failure and does not run the teardown.
C5_NsBuildIdempotent ==
  \A i \in Runs :
    (/\ i > 1
     /\ hist[i - 1].cmd = "add" /\ hist[i].cmd = "add"
     /\ NsEnvEmpty(StartKern(i - 1))
     /\ hist[i - 1].flt = {} /\ hist[i].flt = {}
     /\ hist[i - 1].exit = 0)
    => /\ hist[i].kern = hist[i - 1].kern
       /\ hist[i].exit = 0
       /\ ~Happened(hist[i].trace, "return")
       /\ ~Failed(hist[i].trace, "AddByName")
       /\ ~Failed(hist[i].trace, "IfSetNS")

\* C7: deleteNetwork run when neither ns1, ns2 nor ns1-ns2 exists ends
\* with exit status 0; the missing veth pair is not fatal.
C7_NsTeardownOnEmptyExitsZero ==
  \A i \in Runs :
    (hist[i].cmd = "delete" /\ NsEnvEmpty(StartKern(i)) /\ hist[i].flt = {})
    => hist[i].exit = 0

\* a run of addNetwork in which a veth move failed and the kernel calls of
\* the teardown that followed were left to succeed
MoveFailedRun(h) ==
  /\ h.cmd = "add"
  /\ Failed(h.trace, "IfSetNS")
  /\ \A x \in h.flt : x[1] \in {"a_IfSetNS1", "a_IfSetNS2"}

\* C9: when IfSetNS of either endpoint fails in the build, deleteNetwork
\* runs before the fatal exit: once the process has exited neither
\* ns1/ns2 nor the veth pair exists, already at the exit call when the
\* run started without them, and the exit status is not 0.
C9_MoveFailureTearsDown ==
  \A i \in Runs :
    MoveFailedRun(hist[i]) =>
      /\ Happened(hist[i].trace, "return")
      /\ NsEnvEmpty(hist[i].kern)
      /\ (NsEnvEmpty(StartKern(i)) => NsEnvEmpty(hist[i].kexit))
      /\ hist[i].exit # 0

C9_Witness ==
  \E i \in Runs :
    /\ MoveFailedRun(hist[i])
    /\ hist[i].flt = {<<"a_IfSetNS2", "LinkSetNsFd">>}
    /\ NsEnvEmpty(StartKern(i))
    /\ NsEnvEmpty(hist[i].kexit)
    /\ hist[i].exit = 1

\* the interface called name lives in namespace ns, is up and carries
\* exactly the address addr
EndpointIs(k, name, ns, addr) ==
  LET id == KLinkByName(k, ns, name)
  IN /\ id # 0
     /\ k.links[id].up
     /\ k.links[id].addrs = {addr}
     /\ \A j \in Links(k) : k.links[j].name = name => j = id

\* a run of addNetwork from an environment without ns1, ns2 and the veth
\* pair in which every kernel call succeeded
CleanAddRun(i) ==
  /\ hist[i].cmd = "add"
  /\ NsEnvEmpty(StartKern(i))
  /\ hist[i].flt = {}
  /\ hist[i].exit = 0

\* C10: after addNetwork from an environment without ns1, ns2 and the
\* pair, every kernel call succeeding, ns1-ns2 is in ns1, up, with exactly
\* 192.168.1.1/24; ns2-ns1 is in ns2, up, with exactly 192.168.1.2/24;
\* both loopbacks are up; neither endpoint resolves in the root namespace.
C10_NsTopologyAfterAdd ==
  \A i \in Runs :
    CleanAddRun(i) =>
      LET k == hist[i].kern
      IN /\ EndpointIs(k, veth0, ns1, ns1ns2a)
         /\ EndpointIs(k, veth1, ns2, ns2ns1a)
         /\ k.loUp[ns1] /\ k.loUp[ns2]
         /\ KLinkByName(k, Root, veth0) = 0
         /\ KLinkByName(k, Root, veth1) = 0

C10_Witness ==
  \E i \in Runs :
    /\ CleanAddRun(i)
    /\ EndpointIs(hist[i].kern, veth0, ns1, ns1ns2a)
    /\ hist[i].kern.nsNamed = {ns1, ns2}
    /\ hist[i].cur = Root


(* ---------- the br1/vrf1 example: bridge fanning out to a VRF ---------- *)
br1 == "br1"
vrf1 == "vrf1"
vrf11a == "192.168.1.1/24"
vrf12a == "192.168.1.2/24"

\* vethNames(vethBase[i][0], vethBase[i][1])
vethNames(i) ==
  IF i = 0 THEN <<"vrf11-br1", "br1-vrf11">> ELSE <<"vrf12-br1", "br1-vrf12">>
ifPrefix(i) == IF i = 0 THEN vrf11a ELSE vrf12a
LastPair == 1

InitBr == kern = EmptyKernel /\ ProcInit

BrMain ==
  /\ pc = "idle"
  /\ Len(hist) < MaxRuns
  /\ \E c \in {"add", "delete"} :
       /\ cmd' = c
       /\ pc' = IF c = "add" THEN "b_BridgeGet" ELSE "e_VethGet"
  /\ ret' = "main"
  /\ cur' = Root
  /\ loc' = [LocInit EXCEPT !.pinned = TRUE]
  /\ flt' = {}
  /\ trace' = <<>>
  /\ UNCHANGED <<kern, nfault, hist, last>>

b_BridgeGet ==
  /\ pc = "b_BridgeGet"
  /\ LET r == BridgeGetByName(kern, cur, br1)
         ev == Ev("BridgeGetByName", br1, r.err)
     IN IF ~IsErr(r.err)
        THEN Step(kern, cur, "b_VrfGet", [loc EXCEPT !.br = r.br], ev, {})
        ELSE IF IsNotFound(r.err)
        THEN Step(kern, cur, "b_BridgeAdd", loc, ev, {})
        ELSE Exit(kern, cur, 2, Ev("panic", "br.Name", <<"nil">>), {})

b_BridgeAdd ==
  /\ pc = "b_BridgeAdd"
  /\ \E f \in FaultSets({"SIOCSIFBR", "LinkSetUp"}) :
       LET r == BridgeAdd(kern, cur, br1, Up, f)
           ev == Ev("BridgeAdd", br1, r.err)
       IN IF IsErr(r.err) THEN Exit(r.k, cur, 1, ev, f)
          ELSE Step(r.k, cur, "b_VrfGet", [loc EXCEPT !.br = r.br], ev, f)

b_VrfGet ==
  /\ pc = "b_VrfGet"
  /\ LET r == VrfGetByName(kern, cur, vrf1)
         ev == Ev("VrfGetByName", vrf1, r.err)
     IN IF ~IsErr(r.err)
        THEN Step(kern, cur, "b_VethGet", [loc EXCEPT !.vrf = r.vrf], ev, {})
        ELSE IF IsNotFound(r.err)
        THEN Step(kern, cur, "b_VrfAdd", loc, ev, {})
        ELSE Exit(kern, cur, 2, Ev("panic", "vrf.Name", <<"nil">>), {})

b_VrfAdd ==
  /\ pc = "b_VrfAdd"
  /\ \E f \in FaultSets({"LinkAdd", "LinkSetUp"}) :
       LET r == VrfAddUp(kern, cur, vrf1, 1, Up, f)
           ev == Ev("VrfAdd", vrf1, r.err)
       IN IF IsErr(r.err) THEN Exit(r.k, cur, 1, ev, f)
          ELSE Step(r.k, cur, "b_VethGet", [loc EXCEPT !.vrf = r.vrf], ev, f)

b_VethGet ==
  /\ pc = "b_VethGet"
  /\ LET if1 == vethNames(loc.i)[1]
         r == VethGetByName(kern, cur, if1)
         ev == Ev("VethGetByName", if1, r.err)
     IN IF r.panic THEN Exit(kern, cur, 2, Ev("panic", if1, <<"l.(*Veth)">>), {})
        ELSE IF ~IsErr(r.err)
        THEN Step(kern, cur, "b_VrfBind", [loc EXCEPT !.v = r.veth], ev, {})
        ELSE IF IsNotFound(r.err)
        THEN Step(kern, cur, "b_VethAdd", [loc EXCEPT !.v = NilVeth], ev, {})
        ELSE Exit(kern, cur, 1, ev, {})

b_VethAdd ==
  /\ pc = "b_VethAdd"
  /\ \E f \in FaultSets({"LinkAdd", "LinkSetUp", "LinkSetUpPeer"}) :
       LET n == vethNames(loc.i)
           r == VethAdd(kern, cur, n[1], n[2], Up, f)
           ev == Ev("VethAdd", n[1], r.err)
       IN IF IsErr(r.err) THEN Exit(r.k, cur, 1, ev, f)
          ELSE Step(r.k, cur, "b_VrfBind", [loc EXCEPT !.v = r.veth], ev, f)

b_VrfBind ==
  /\ pc = "b_VrfBind"
  /\ \E f \in FaultSets({"LinkSetMaster"}) :
       LET n == VethName(loc.v)
           r == VrfBindIf(kern, cur, loc.vrf, n.name, f)
           ev == Ev("vrf.BindIf", n.name, r.err)
       IN IF IsErr(r.err) THEN Exit(r.k, cur, 1, ev, f)
          ELSE Step(r.k, cur, "b_BrBind", loc, ev, f)

b_BrBind ==
  /\ pc = "b_BrBind"
  /\ \E f \in FaultSets({"LinkSetMaster"}) :
       LET n == VethPeerName(loc.v)
           r == BridgeBindIf(kern, cur, loc.br, n.name, f)
           ev == Ev("br.BindIf", n.name, r.err)
       IN IF IsErr(r.err) THEN Exit(r.k, cur, 1, ev, f)
          ELSE Step(r.k, cur, "b_Addr", loc, ev, f)

\* the last statement of the loop body; after the second pair addNetwork
\* returns and main ends with os.Exit(0)
b_Addr ==
  /\ pc = "b_Addr"
  /\ \E f \in FaultSets({"AddrReplace", "LinkSetUp"}) :
       LET r == VethIpAddrReplace(kern, loc.v, Self, ifPrefix(loc.i), Up, f)
           ev == Ev("IpAddrReplace", loc.v.Name, r.err)
       IN IF IsErr(r.err) /\ ~IsExist(r.err) THEN Exit(r.k, cur, 1, ev, f)
          ELSE IF loc.i = LastPair THEN Exit(r.k, cur, 0, ev, f)
          ELSE Step(r.k, cur, "b_VethGet",
                    [loc EXCEPT !.i = @ + 1, !.v = NilVeth], ev, f)

e_VethGet ==
  /\ pc = "e_VethGet"
  /\ LET if1 == vethNames(loc.i)[1]
         r == VethGetByName(kern, cur, if1)
         ev == Ev("VethGetByName", if1, r.err)
     IN IF r.panic THEN Exit(kern, cur, 2, Ev("panic", if1, <<"l.(*Veth)">>), {})
        ELSE IF ~IsErr(r.err)
        THEN Step(kern, cur, "e_Unbind", [loc EXCEPT !.v = r.veth], ev, {})
        ELSE Step(kern, cur, "e_UnbindPeer", [loc EXCEPT !.v = r.veth], ev, {})

e_Unbind ==
  /\ pc = "e_Unbind"
  /\ \E f \in FaultSets({"LinkSetNoMaster"}) :
       LET n == VethName(loc.v)
           r == IfUnbind(kern, cur, n.name, f)
       IN Step(r.k, cur, "e_UnbindPeer", loc, Ev("IfUnbind", n.name, r.err), f)

\* veth[i].PeerName() is evaluated whether or not the lookup found the pair
e_UnbindPeer ==
  /\ pc = "e_UnbindPeer"
  /\ \E f \in FaultSets({"LinkSetNoMaster"}) :
       LET n == VethPeerName(loc.v)
           r == IfUnbind(kern, cur, n.name, f)
       IN IF n.panic
          THEN Exit(kern, cur, 2, Ev("panic", "veth[i].PeerName", <<"nil">>), {})
          ELSE Step(r.k, cur, "e_VethDelete", loc,
                    Ev("IfUnbind", n.name, r.err), f)

e_VethDelete ==
  /\ pc = "e_VethDelete"
  /\ \E f \in FaultSets({"LinkDel"}) :
       LET n == VethName(loc.v)
           r == VethDelete(kern, cur, n.name, f)
           ev == Ev("VethDelete", n.name, r.err)
       IN IF n.panic
          THEN Exit(kern, cur, 2, Ev("panic", "veth[i].Name", <<"nil">>), {})
          ELSE IF loc.i = LastPair THEN Step(r.k, cur, "e_VrfDelete", loc, ev, f)
          ELSE Step(r.k, cur, "e_VethGet",
                    [loc EXCEPT !.i = @ + 1, !.v = NilVeth], ev, f)

e_VrfDelete ==
  /\ pc = "e_VrfDelete"
  /\ \E f \in FaultSets({"LinkDel"}) :
       LET r == VrfDelete(kern, cur, vrf1, f)
       IN Step(r.k, cur, "e_BridgeDelete", loc, Ev("VrfDelete", vrf1, r.err), f)

\* the last statement of deleteNetwork; main then ends with os.Exit(0)
e_BridgeDelete ==
  /\ pc = "e_BridgeDelete"
  /\ \E f \in FaultSets({"LinkSetDown", "SIOCSIFBR"}) :
       LET r == BridgeDelete(kern, cur, br1, f)
       IN Exit(r.k, cur, 0, Ev("BridgeDelete", br1, r.err), f)

NextBr ==
  \/ BrMain
  \/ b_BridgeGet \/ b_BridgeAdd \/ b_VrfGet \/ b_VrfAdd \/ b_VethGet
  \/ b_VethAdd \/ b_VrfBind \/ b_BrBind \/ b_Addr
  \/ e_VethGet \/ e_Unbind \/ e_UnbindPeer \/ e_VethDelete \/ e_VrfDelete
  \/ e_BridgeDelete

SpecBr == InitBr /\ [][NextBr]_vars


(* ------------- properties of the br1/vrf1 example ---------------------- *)
BrNames == {br1, vrf1} \cup {vethNames(i)[j] : i \in 0..LastPair, j \in 1..2}

\* none of br1, vrf1 and the two veth pairs exists
BrEnvEmpty(k) == \A id \in Links(k) : k.links[id].name \notin BrNames

AllOk(tr) == \A j \in 1..Len(tr) : tr[j].ok

\* two successive runs of addNetwork, the first from an environment without
\* the topology, no kernel call made to fail
AddTwice(i) ==
  /\ i > 1
  /\ hist[i - 1].cmd = "add" /\ hist[i].cmd = "add"
  /\ BrEnvEmpty(StartKern(i - 1))
  /\ hist[i - 1].flt = {} /\ hist[i].flt = {}

\* C4: from an environment with none of br1, vrf1 and the veth pairs, a
\* second addNetwork ends in the kernel state the first one produced and
\* takes only found branches: no object is created, every call succeeds
\* and both runs end with status 0.
C4_BrBuildIdempotent ==
  \A i \in Runs :
    AddTwice(i) =>
      /\ hist[i - 1].exit = 0
      /\ hist[i].exit = 0
      /\ hist[i].kern = hist[i - 1].kern
      /\ AllOk(hist[i].trace)
      /\ \A op \in {"BridgeAdd", "VrfAdd", "VethAdd"} :
           ~Happened(hist[i].trace, op)

C4_Witness ==
  \E i \in Runs :
    /\ AddTwice(i)
    /\ Happened(hist[i - 1].trace, "VethAdd")
    /\ Len(hist[i].trace) = 10
    /\ hist[i].kern = hist[i - 1].kern
    /\ Cardinality(Links(hist[i].kern)) = 6

\* C6: deleteNetwork run when none of the veth pairs, vrf1 and br1 exists
\* does not crash and ends with exit status 0.
C6_BrTeardownOnEmptyExitsZero ==
  \A i \in Runs :
    (hist[i].cmd = "delete" /\ BrEnvEmpty(StartKern(i)) /\ hist[i].flt = {})
    => /\ hist[i].exit = 0
       /\ ~Happened(hist[i].trace, "panic")

\* the pair with an endpoint called name is absent, or its VRF-side leg
\* is bound to vrf1 and its bridge-side leg to br1
PairAbsentOrBound(k, name) ==
  \A i \in 0..LastPair :
    name \in {vethNames(i)[1], vethNames(i)[2]} =>
      LET a == KLinkByName(k, Root, vethNames(i)[1])
          b == KLinkByName(k, Root, vethNames(i)[2])
      IN \/ a = 0 /\ b = 0
         \/ /\ a # 0 /\ b # 0
            /\ k.links[a].master # 0 /\ k.links[b].master # 0
            /\ k.links[k.links[a].master].name = vrf1
            /\ k.links[k.links[b].master].name = br1

\* C8: when vrf.BindIf or br.BindIf fails in the build, the veth pair is
\* not left in existence without its bindings: at process exit it is
\* absent or both legs are bound.
C8_BindFailureLeavesNoUnboundPair ==
  \A i \in Runs :
    LET tr == hist[i].trace IN
    \A j \in 1..Len(tr) :
      (hist[i].cmd = "add" /\ tr[j].op \in {"vrf.BindIf", "br.BindIf"}
         /\ ~tr[j].ok)
      => PairAbsentOrBound(hist[i].kern, tr[j].arg)


\* the device called name exists in the root namespace with this kind, up
MasterUp(k, name, kind) ==
  LET l == KLinkByName(k, Root, name)
  IN l # 0 /\ k.links[l].kind = kind /\ k.links[l].up

\* pair i exists, its first leg has master vrf1 and carries addr, its peer
\* has master br1
LegsBound(k, i, addr) ==
  LET a == KLinkByName(k, Root, vethNames(i)[1])
      b == KLinkByName(k, Root, vethNames(i)[2])
  IN /\ a # 0 /\ b # 0
     /\ k.links[a].kind = "veth" /\ k.links[a].peer = b
     /\ k.links[a].master = KLinkByName(k, Root, vrf1)
     /\ k.links[b].master = KLinkByName(k, Root, br1)
     /\ addr \in k.links[a].addrs

\* a run of addNetwork from an environment without br1, vrf1 and the veth
\* pairs in which no kernel call was made to fail
CleanBrAddRun(i) ==
  /\ hist[i].cmd = "add"
  /\ BrEnvEmpty(StartKern(i))
  /\ hist[i].flt = {}

\* C11: after addNetwork from an environment without br1, vrf1 and the
\* pairs, every kernel call succeeding, br1 and vrf1 exist and are up,
\* both pairs exist, vrf11-br1 and vrf12-br1 have master vrf1, br1-vrf11
\* and br1-vrf12 have master br1, and the VRF-side legs carry
\* 192.168.1.1/24 and 192.168.1.2/24.
C11_BrTopologyAfterAdd ==
  \A i \in Runs :
    CleanBrAddRun(i) =>
      LET k == hist[i].kern
      IN /\ hist[i].exit = 0
         /\ MasterUp(k, br1, "bridge")
         /\ MasterUp(k, vrf1, "vrf")
         /\ LegsBound(k, 0, vrf11a)
         /\ LegsBound(k, 1, vrf12a)

C11_Witness ==
  \E i \in Runs :
    /\ CleanBrAddRun(i)
    /\ Happened(hist[i].trace, "BridgeAdd")
    /\ Len(hist[i].trace) = 14
    /\ LegsBound(hist[i].kern, 1, vrf12a)
    /\ MasterUp(hist[i].kern, br1, "bridge")


(* -------- both examples on a host that has a device of its own --------- *)
eth0 == "eth0"
eth0a == "10.0.0.1/8"

\* an interface that exists independently of the two topologies
HostKernel ==
  [EmptyKernel EXCEPT !.links[1] =
     [ns |-> Root, name |-> eth0, kind |-> "other", up |-> TRUE,
      master |-> 0, addrs |-> {eth0a}, peer |-> 0, index |-> 2]]

InitTrip == kern = HostKernel /\ ProcInit

NextTrip == NextNs \/ NextBr

SpecTrip == InitTrip /\ [][NextTrip]_vars

\* the kernel a completed run of SpecTrip started from
StartHost(i) == IF i = 1 THEN HostKernel ELSE hist[i - 1].kern

\* which of the two programs a completed run was: the first call tells
Prog(h) ==
  IF h.trace[1].op = "BridgeGetByName" \/ h.trace[1].arg = vethNames(0)[1]
  THEN "br" ELSE "ns"

\* what name enumeration shows: interface names per namespace, and the
\* namespace names
NamesOf(k) ==
  [ifs |-> {<<k.links[id].ns, k.links[id].name>> : id \in Links(k)},
   nss |-> k.nsNamed]

TopologyNames == BrNames \cup {veth0, veth1}

\* addNetwork then deleteNetwork of the same example, the build from an
\* environment without either topology, no kernel call made to fail
RoundTrip(i) ==
  /\ i > 1
  /\ hist[i - 1].cmd = "add" /\ hist[i].cmd = "delete"
  /\ Prog(hist[i - 1]) = Prog(hist[i])
  /\ NsEnvEmpty(StartHost(i - 1)) /\ BrEnvEmpty(StartHost(i - 1))
  /\ hist[i - 1].flt = {} /\ hist[i].flt = {}

\* C12: addNetwork followed by deleteNetwork, every kernel call
\* succeeding, leaves the interface names and namespace names as they were
\* before the build: none of the topology's names resolves and the devices
\* that existed before are untouched.
C12_RoundTripRestoresNames ==
  \A i \in Runs :
    RoundTrip(i) =>
      LET k0 == StartHost(i - 1)
          k == hist[i].kern
      IN /\ NamesOf(k) = NamesOf(k0)
         /\ k.nsNamed \cap NsNames = {}
         /\ \A id \in Links(k) : k.links[id].name \notin TopologyNames
         /\ \A id \in Links(k0) : k.links[id] = k0.links[id]

C12_WitnessNs ==
  \E i \in Runs :
    /\ RoundTrip(i) /\ Prog(hist[i]) = "ns"
    /\ hist[i - 1].kern.nsNamed = {ns1, ns2}
    /\ hist[i].kern = HostKernel

C12_WitnessBr ==
  \E i \in Runs :
    /\ RoundTrip(i) /\ Prog(hist[i]) = "br"
    /\ LegsBound(hist[i - 1].kern, 1, vrf12a)
    /\ hist[i].kern = HostKernel


\* the kernel calls of the address-assignment step of either build
AddressPoints ==
  {<<"a_Addr1", "AddrAdd">>, <<"a_Addr1", "LinkSetUp">>,
   <<"a_Addr2", "AddrAdd">>, <<"a_Addr2", "LinkSetUp">>,
   <<"b_Addr", "AddrReplace">>, <<"b_Addr", "LinkSetUp">>}

\* C13: in both builds every address is assigned with IpAddrReplace and
\* never with IpAddrAdd, and an address-assignment error that is not
\* AlreadyExists ends the build through the fatal path.
C13_BuildUsesReplaceAndFailsFatally ==
  \A i \in Runs :
    hist[i].cmd = "add" =>
      /\ ~Happened(hist[i].trace, "IpAddrAdd")
      /\ (hist[i].flt \cap AddressPoints # {} => hist[i].exit # 0)


\* C14: a teardown run exits with a non-zero status only when restoring
\* the original namespace failed (capturing it with netns.Get counted in);
\* any other failed or not-found step is logged and the run ends with
\* status 0.
C14_TeardownFatalOnlyOnRestore ==
  \A i \in Runs :
    (hist[i].cmd = "delete" /\ hist[i].exit # 0)
    => Failed(hist[i].trace, "orig.Set") \/ Failed(hist[i].trace, "Get")


(* ------ the br1/vrf1 example where one of its names is already taken ---- *)
\* the names addNetwork looks up with a typed lookup, and the kind each
\* lookup wants
LookupKinds ==
  [n \in {br1, vrf1, vethNames(0)[1], vethNames(1)[1]} |->
     IF n = br1 THEN "bridge" ELSE IF n = vrf1 THEN "vrf" ELSE "veth"]
LookupNames == DOMAIN LookupKinds

\* a host whose one interface carries name n and is of kind kd
ClashKernel(n, kd) ==
  [HostKernel EXCEPT !.links[1].name = n, !.links[1].kind = kd]

InitClash ==
  /\ \/ kern = HostKernel
     \/ \E n \in LookupNames, kd \in {"bridge", "vrf", "other"} :
          kd # LookupKinds[n] /\ kern = ClashKernel(n, kd)
  /\ ProcInit

SpecClash == InitClash /\ [][NextBr]_vars

\* the names of LookupNames that resolve, in the root namespace of k, to
\* an interface of another kind than the lookup wants
Clashes(k) ==
  {n \in LookupNames :
     \E id \in LinksIn(k, Root) :
       k.links[id].name = n /\ k.links[id].kind # LookupKinds[n]}

TypedLookupErr(k, c, n) ==
  IF LookupKinds[n] = "bridge" THEN BridgeGetByName(k, c, n).err
  ELSE IF LookupKinds[n] = "vrf" THEN VrfGetLinkByName(k, c, n).err
  ELSE VethGetLinkByName(k, c, n).err

\* an add run, no kernel call made to fail, that met a taken name
ClashRun(i) ==
  /\ hist[i].cmd = "add"
  /\ hist[i].flt = {}
  /\ Clashes(hist[i].kexit) # {}

\* C17: a name that exists in the current namespace as an interface of
\* another kind makes the typed lookup fail with an error IsNotFound does
\* not match, and the build then ends through errExit (status 1) with the
\* failed lookup as its last step: nothing is created, bound or addressed
\* after it.
C17_KindCollisionIsFatal ==
  /\ \A n \in Clashes(kern) :
       /\ IsErr(TypedLookupErr(kern, Root, n))
       /\ ~IsNotFound(TypedLookupErr(kern, Root, n))
  /\ \A i \in Runs :
       ClashRun(i) =>
         LET t == hist[i].trace IN
         /\ hist[i].exit = 1
         /\ t[Len(t)].arg \in Clashes(hist[i].kexit)
         /\ ~t[Len(t)].ok
         /\ t[Len(t)].op \in {"BridgeGetByName", "VrfGetByName", "VethGetByName"}


(* ------------------ a bring-up that fails after creation --------------- *)
UpPoints == {"LinkSetUp", "LinkSetUpPeer"}

\* VethAdd(n[1], n[2], Up) in kernel k with the LinkSetUp calls of f failing:
\* when the kernel creates the pair, the handle and an error come back, both
\* endpoints are in place, and each endpoint is up unless its own LinkSetUp
\* was the one that failed
VethAddKeepsPair(k, n, f) ==
  LET r == VethAdd(k, Root, n[1], n[2], Up, f)
      l == KLinkByName(r.k, Root, n[1])
      q == KLinkByName(r.k, Root, n[2])
  IN KVethAdd(k, Root, n[1], n[2]).err = "" =>
       /\ IsErr(r.err)
       /\ ~r.veth.nil
       /\ l # 0 /\ q # 0
       /\ r.veth.Link = l /\ r.veth.Peer = q
       /\ r.k.links[l].kind = "veth" /\ r.k.links[l].peer = q
       /\ r.k.links[l].up = ("LinkSetUp" \notin f)
       /\ r.k.links[q].up = ("LinkSetUpPeer" \notin f)

\* BridgeAdd(br1, Up) in kernel k with LinkSetUp failing
BridgeAddKeepsBridge(k) ==
  LET r == BridgeAdd(k, Root, br1, Up, {"LinkSetUp"})
      l == KLinkByName(r.k, Root, br1)
  IN KBridgeIoctl(k, Root, br1, Add).err = "" =>
       /\ IsErr(r.err)
       /\ r.br # 0 /\ r.br = l
       /\ r.k.links[l].kind = "bridge"
       /\ ~r.k.links[l].up

\* the LinkSetUp calls that failed in the VethAdd of completed run i
UpFailed(i) == {p \in UpPoints : <<"b_VethAdd", p>> \in hist[i].flt}

brTest1 == "brTest1"
TbNames == {br1, brTest1}

InitBridge == (kern = EmptyKernel \/ kern = HostKernel) /\ ProcInit

\* BridgeAdd(name, up): what came back, and what the kernel did for it
TbBridgeAdd ==
  \E name \in TbNames, up \in BOOLEAN, f \in SUBSET {"SIOCSIFBR", "LinkSetUp"} :
    LET r == BridgeAdd(kern, cur, name, up, f)
        io == KBridgeIoctl(kern, cur, name, Add)
    IN /\ kern' = r.k
       /\ last' = [op |-> "BridgeAdd", name |-> name, up |-> up,
                   made |-> "SIOCSIFBR" \notin f /\ io.err = "",
                   found |-> ~IsErr(BridgeGetByName(r.k, cur, name).err),
                   upFailed |-> up /\ "LinkSetUp" \in f,
                   br |-> r.br, err |-> r.err]
       /\ UNCHANGED <<cur, procVars>>

TbBridgeDelete ==
  \E name \in TbNames, f \in SUBSET {"LinkSetDown"} :
    LET r == BridgeDelete(kern, cur, name, f) IN
    /\ kern' = r.k
    /\ last' = [op |-> "BridgeDelete", name |-> name, err |-> r.err]
    /\ UNCHANGED <<cur, procVars>>

NextBridge == TbBridgeAdd \/ TbBridgeDelete

SpecBridge == InitBridge /\ [][NextBridge]_vars

\* C19: BridgeAdd(name, up) returns a bridge handle and a nil error whenever
\* the kernel created the bridge and the bring-up, if one was asked for,
\* succeeded, for up = true and up = false alike; it returns an error only
\* when the creation, the lookup of the new bridge or the bring-up failed.
C19_BridgeAddSucceedsWhenCreated ==
  last.op = "BridgeAdd" =>
    /\ (last.made /\ last.found /\ ~last.upFailed) =>
         (last.br # 0 /\ last.err = Nil)
    /\ IsErr(last.err) => (~last.made \/ ~last.found \/ last.upFailed)


(* ------- veth lookups by a caller that moves between namespaces -------- *)
InitPeer == kern = HostKernel /\ ProcInit

\* VethAdd(veth0, veth1, up) in the namespace the caller is in; the caller
\* has one pair
PvVethAdd ==
  /\ \A id \in Links(kern) : kern.links[id].name \notin {veth0, veth1}
  /\ \E up \in BOOLEAN :
       LET r == VethAdd(kern, cur, veth0, veth1, up, {}) IN
       /\ kern' = r.k
       /\ last' = [op |-> "VethAdd", up |-> up, veth |-> r.veth,
                   err |-> r.err]
  /\ UNCHANGED <<cur, procVars>>

\* VethGetByName(name); the kernel is only read
PvVethGetByName ==
  \E name \in {veth0, veth1, eth0} :
    LET r == VethGetByName(kern, cur, name) IN
    /\ last' = [op |-> "VethGetByName", name |-> name, veth |-> r.veth,
                peerName |-> VethPeerName(r.veth).name,
                panic |-> r.panic, err |-> r.err]
    /\ UNCHANGED <<kern, cur, procVars>>

NextPeer ==
  \/ LibAddByName
  \/ LibSet
  \/ LibIfSetNS
  \/ LibIfUnsetNS
  \/ PvVethAdd
  \/ PvVethGetByName

SpecPeer == InitPeer /\ [][NextPeer]_vars

\* name is a veth endpoint in namespace c whose peer is in another namespace
PeerElsewhere(k, c, name) ==
  LET l == KLinkByName(k, c, name) IN
  /\ l # 0
  /\ k.links[l].kind = "veth"
  /\ k.links[l].peer # 0
  /\ k.links[k.links[l].peer].ns # c

\* C20: VethGetByName(name) does not crash; when name is a veth endpoint of
\* the current namespace whose peer is in another namespace it succeeds
\* with Link the local endpoint and a nil Peer (PeerName() = ""); and the
\* Peer of any handle it returns is nil or the actual peer of name.
C20_PeerIsNilOrActualPeer ==
  last.op = "VethGetByName" =>
    /\ ~last.panic
    /\ PeerElsewhere(kern, cur, last.name) =>
         /\ last.err = Nil
         /\ ~last.veth.nil
         /\ last.veth.Link = KLinkByName(kern, cur, last.name)
         /\ last.veth.Peer = 0
         /\ last.peerName = ""
    /\ (last.err = Nil /\ ~last.veth.nil) =>
         \/ last.veth.Peer = 0
         \/ last.veth.Peer = kern.links[last.veth.Link].peer


(* ------------- the route builders and flag mutators, called ------------ *)
Dsts == {"192.168.1.0/24"}
Gws == {"172.16.1.3", "172.16.1.4"}
NhLists == UNION {[1..n -> Gws] : n \in 0..MaxNh}
FlagWords == 0..(2 ^ FlagBits - 1)
FlagFns == {"SetOnlink", "ClearOnlink", "SetPervasive", "ClearPervasive"}

\* the route the caller holds carries any flag word, its next hop is
\* NHinfo{}
InitRoute ==
  /\ kern = EmptyKernel
  /\ cur = Root
  /\ pc = "idle"
  /\ cmd = "none"
  /\ ret = "none"
  /\ \E x \in FlagWords : loc = [LocInit EXCEPT !.rt.Flags = x]
  /\ flt = {}
  /\ nfault = 0
  /\ trace = <<>>
  /\ hist = <<>>
  /\ last = NoCall

\* the caller builds its route once
RtNewRoute ==
  /\ loc.rt.Dst = NilIPNet
  /\ \E dst \in Dsts \cup {NilIPNet}, nh \in NhLists :
       LET r == NewRoute(dst, nh) IN
       /\ last' = [op |-> "NewRoute", dst |-> dst, nh |-> nh,
                   route |-> r.route, err |-> r.err]
       /\ loc' = IF IsErr(r.err) THEN loc ELSE [loc EXCEPT !.rt = r.route]
  /\ UNCHANGED <<kern, cur, pc, cmd, ret, flt, nfault, trace, hist>>

RtAddNextHop ==
  /\ Len(loc.rt.MultiPath) < MaxNh
  /\ \E gw \in Gws :
       /\ loc' = [loc EXCEPT !.rt = AddNextHop(@, [EmptyNH EXCEPT !.Gw = gw])]
       /\ last' = [op |-> "AddNextHop", err |-> Nil]
  /\ UNCHANGED <<kern, cur, pc, cmd, ret, flt, nfault, trace, hist>>

FlagCall(fn, i) ==
  IF fn = "SetOnlink" THEN SetOnlink(i)
  ELSE IF fn = "ClearOnlink" THEN ClearOnlink(i)
  ELSE IF fn = "SetPervasive" THEN SetPervasive(i)
  ELSE ClearPervasive(i)

\* what the caller can pass: &rt, &nhi, rt.MultiPath[0], a nil *Route, a
\* Route by value, an int, nil
FlagArgs ==
  {[type |-> "*Route", isnil |-> FALSE, val |-> loc.rt, at |-> 0],
   [type |-> "*NHinfo", isnil |-> FALSE, val |-> loc.nhi, at |-> 0],
   [type |-> "*Route", isnil |-> TRUE, val |-> EmptyRoute, at |-> 0],
   [type |-> "Route", isnil |-> FALSE, val |-> loc.rt, at |-> 0],
   [type |-> "int", isnil |-> FALSE, val |-> [Flags |-> loc.rt.Flags], at |-> 0],
   [type |-> "nil", isnil |-> TRUE, val |-> [Flags |-> 0], at |-> 0]}
  \cup {[type |-> "*NHinfo", isnil |-> FALSE, val |-> loc.rt.MultiPath[j],
         at |-> j] : j \in 1..Min({1, Len(loc.rt.MultiPath)})}

RtFlag ==
  \E fn \in FlagFns, i \in FlagArgs :
    LET r == FlagCall(fn, i) IN
    /\ last' = [op |-> fn, ok |-> ~r.panic /\ ~IsErr(r.err)]
    /\ loc' = IF r.panic \/ IsErr(r.err) THEN loc
              ELSE IF i.type = "*Route" THEN [loc EXCEPT !.rt = r.val]
              ELSE IF i.at = 0 THEN [loc EXCEPT !.nhi = r.val]
              ELSE [loc EXCEPT !.rt.MultiPath[i.at] = r.val]
    /\ UNCHANGED <<kern, cur, pc, cmd, ret, flt, nfault, trace, hist>>

NextRoute == RtNewRoute \/ RtAddNextHop \/ RtFlag

SpecRoute == InitRoute /\ [][NextRoute]_vars

\* C15: NewRoute(dst, nh) fails and returns no usable route when dst is nil
\* and when nh is empty; otherwise it succeeds with destination dst and
\* exactly len(nh) next hops, the i-th with gateway nh[i].  The kernel is
\* not touched.
C15_NewRouteBuilds ==
  last.op = "NewRoute" =>
    /\ kern = EmptyKernel
    /\ (last.dst = NilIPNet \/ Len(last.nh) = 0) =>
         (IsErr(last.err) /\ last.route = EmptyRoute)
    /\ (last.dst # NilIPNet /\ Len(last.nh) > 0) =>
         /\ last.err = Nil
         /\ last.route.Dst = last.dst
         /\ Len(last.route.MultiPath) = Len(last.nh)
         /\ \A j \in 1..Len(last.nh) : last.route.MultiPath[j].Gw = last.nh[j]

C15_Witness ==
  /\ last.op = "NewRoute"
  /\ Len(last.nh) = 1
  /\ last.err = Nil
  /\ Len(last.route.MultiPath) = 1
  /\ last.route.MultiPath[1].Gw = last.nh[1]


\* the outcome of mutator fn on argument i: nil error, bit b of Flags as
\* wanted, everything else as before
FlagOnly(fn, i, b, want) ==
  LET r == FlagCall(fn, i) IN
  IF i.type \in PtrTypes /\ ~i.isnil
  THEN /\ r.err = Nil /\ ~r.panic
       /\ HasBit(r.val.Flags, b) = want
       /\ \A c \in {2 ^ n : n \in 0..(FlagBits - 1)} \ {b} :
            HasBit(r.val.Flags, c) = HasBit(i.val.Flags, c)
       /\ [r.val EXCEPT !.Flags = i.val.Flags] = i.val
  ELSE i.type \notin PtrTypes => (IsErr(r.err) /\ r.val = i.val /\ ~r.panic)

VtNames == {vrf1, eth0}
VtTids == {1, 2}
VtNhs == {<<"172.16.1.3">>, <<"172.16.1.3", "172.16.1.4">>}
VtTypes == {"unicast", "local"}

InitVrf == (kern = EmptyKernel \/ kern = HostKernel) /\ ProcInit

VtVrfAdd ==
  \E tid \in VtTids, f \in SUBSET {"LinkAdd"} :
    LET r == VrfAdd(kern, cur, vrf1, tid, f) IN
    /\ kern' = r.k
    /\ last' = [op |-> "VrfAdd", err |-> r.err]
    /\ UNCHANGED <<cur, procVars>>

VtVrfDelete ==
  LET r == VrfDelete(kern, cur, vrf1, {}) IN
  /\ kern' = r.k
  /\ last' = [op |-> "VrfDelete", err |-> r.err]
  /\ UNCHANGED <<cur, procVars>>

\* the caller builds a route; its Table field holds whatever it held
VtNewRoute ==
  \E dst \in Dsts, nh \in VtNhs, t \in {0} \cup VtTids :
    LET r == NewRoute(dst, nh) IN
    /\ loc' = [loc EXCEPT !.rt = [r.route EXCEPT !.Table = t]]
    /\ last' = [op |-> "NewRoute", err |-> r.err]
    /\ UNCHANGED <<kern, cur, pc, cmd, ret, flt, nfault, trace, hist>>

\* what a route call did: the route as the callee left it, the entries that
\* appeared in and disappeared from the tables
RouteCall(op, name, r) ==
  [op |-> op, name |-> name, given |-> loc.rt, route |-> r.route,
   found |-> ~IsErr(VrfGetByName(kern, cur, name).err),
   added |-> r.k.routes \ kern.routes, removed |-> kern.routes \ r.k.routes,
   err |-> r.err]

VtVrfAddRouteByName ==
  /\ loc.rt.Dst # NilIPNet
  /\ \E name \in VtNames, f \in SUBSET {"RouteAdd"} :
       LET r == VrfAddRouteByName(kern, cur, name, loc.rt, f) IN
       /\ kern' = r.k
       /\ loc' = [loc EXCEPT !.rt = r.route]
       /\ last' = RouteCall("VrfAddRouteByName", name, r)
  /\ UNCHANGED <<cur, pc, cmd, ret, flt, nfault, trace, hist>>

VtAddRoute ==
  /\ loc.rt.Dst # NilIPNet
  /\ \E f \in SUBSET {"RouteAdd"} :
       LET r == AddRoute(kern, loc.rt, f) IN
       /\ kern' = r.k
       /\ loc' = [loc EXCEPT !.rt = r.route]
       /\ last' = RouteCall("AddRoute", vrf1, r)
  /\ UNCHANGED <<cur, pc, cmd, ret, flt, nfault, trace, hist>>

VtDeleteRoute ==
  /\ loc.rt.Dst # NilIPNet
  /\ LET r == DeleteRoute(kern, loc.rt, {}) IN
     /\ kern' = r.k
     /\ loc' = [loc EXCEPT !.rt = r.route]
     /\ last' = RouteCall("DeleteRoute", vrf1, r)
  /\ UNCHANGED <<cur, pc, cmd, ret, flt, nfault, trace, hist>>

VtReplaceRoute ==
  /\ loc.rt.Dst # NilIPNet
  /\ LET r == ReplaceRoute(kern, loc.rt, {}) IN
     /\ kern' = r.k
     /\ loc' = [loc EXCEPT !.rt = r.route]
     /\ last' = RouteCall("ReplaceRoute", vrf1, r)
  /\ UNCHANGED <<cur, pc, cmd, ret, flt, nfault, trace, hist>>

\* VrfGetRoutesByName(name, FAMILY_V4, type) and the two IPv4 wrappers
VtGetRoutes ==
  \E name \in VtNames,
     fn \in {"VrfGetRoutesByName", "VrfGetIPv4localRoutes",
             "VrfGetIPv4routesByName"} :
    LET r == IF fn = "VrfGetRoutesByName"
             THEN VrfGetRoutesByName(kern, cur, name, "unicast", {})
             ELSE IF fn = "VrfGetIPv4localRoutes"
             THEN VrfGetIPv4localRoutes(kern, cur, name, {})
             ELSE VrfGetIPv4routesByName(kern, cur, name, {})
    IN /\ last' = [op |-> fn, name |-> name,
                   found |-> ~IsErr(VrfGetByName(kern, cur, name).err),
                   panic |-> r.panic, err |-> r.err]
       /\ UNCHANGED <<kern, cur, procVars>>

NextVrf ==
  \/ VtVrfAdd
  \/ VtVrfDelete
  \/ VtNewRoute
  \/ VtVrfAddRouteByName
  \/ VtAddRoute
  \/ VtDeleteRoute
  \/ VtReplaceRoute
  \/ VtGetRoutes

SpecVrf == InitVrf /\ [][NextVrf]_vars

\* C21: VrfGetRoutesByName, and VrfGetIPv4localRoutes which delegates to it,
\* return a non-nil error as an ordinary result, without crashing, when no
\* VRF of that name exists or the name is not a VRF.
C21_RoutesOfMissingVrfIsError ==
  (last.op \in {"VrfGetRoutesByName", "VrfGetIPv4localRoutes"} /\ ~last.found)
    => (~last.panic /\ IsErr(last.err))

\* C24: VrfAddRouteByName(vrf, r) installs r in the table whose id is the
\* table id of the VRF, whatever r.Table held, and VrfGetIPv4routesByName
\* then shows a route with r's destination and gateways; a failed VRF
\* lookup installs nothing; AddRoute, DeleteRoute and ReplaceRoute act on
\* table 0 only.
C24_RouteGoesToVrfTable ==
  /\ (last.op = "VrfAddRouteByName" /\ last.err = Nil) =>
       LET l == KLinkByName(kern, cur, last.name)
           got == VrfGetIPv4routesByName(kern, cur, last.name, {})
       IN /\ last.found
          /\ last.route.Table = VrfTid(kern, l)
          /\ last.removed = {}
          /\ last.added = {[Table |-> VrfTid(kern, l), Type |-> "unicast",
                            Dst |-> last.given.Dst,
                            Gws |-> KRouteGws(last.given)]}
          /\ got.err = Nil
          /\ \E x \in got.routes :
               x.Dst = last.given.Dst /\ KRouteGws(x) = KRouteGws(last.given)
  /\ (last.op = "VrfAddRouteByName" /\ ~last.found) =>
       (IsErr(last.err) /\ last.added = {} /\ last.removed = {})
  /\ last.op \in {"AddRoute", "DeleteRoute", "ReplaceRoute"} =>
       /\ last.route.Table = 0
       /\ \A e \in last.added \cup last.removed : e.Table = 0

\* a route whose Table field named another table went into the table of
\* vrf1, next to a route of the default table
C24_Witness ==
  /\ last.op = "VrfAddRouteByName"
  /\ last.err = Nil
  /\ last.given.Table # last.route.Table
  /\ last.route.Table = 2
  /\ \E e \in kern.routes : e.Table = 0
  /\ \E e \in kern.routes : e.Table = 2 /\ Len(e.Gws) = 1

\* C22: after VethAdd(a, b, false) succeeds the handle has name a and peer
\* name b, VethGetByName(b) succeeds with name b and peer name a, and both
\* endpoints are administratively down.
C22_VethAddDownIsSymmetric ==
  (last.op = "VethAdd" /\ ~last.up /\ last.err = Nil) =>
    LET g == VethGetByName(kern, cur, veth1)
        l == KLinkByName(kern, cur, veth0)
        q == KLinkByName(kern, cur, veth1)
    IN /\ ~VethName(last.veth).panic /\ VethName(last.veth).name = veth0
       /\ VethPeerName(last.veth).name = veth1
       /\ ~g.panic /\ g.err = Nil
       /\ VethName(g.veth).name = veth1
       /\ VethPeerName(g.veth).name = veth0
       /\ g.veth.Link = q /\ g.veth.Peer = l
       /\ l # 0 /\ q # 0
       /\ ~kern.links[l].up /\ ~kern.links[q].up

\* the pair was created down inside a namespace, next to nothing else
C22_Witness ==
  /\ last.op = "VethAdd" /\ ~last.up /\ last.err = Nil
  /\ cur = ns1
  /\ KLinkByName(kern, ns1, veth1) # 0
  /\ VethPeerName(VethGetByName(kern, cur, veth1).veth).name = veth0

(* ------------------ renaming an interface (testRename) ----------------- *)
vrf2 == "vrf2"
RnNames == {vrf1, vrf2, eth0}

InitRename == kern = HostKernel /\ ProcInit

RnVrfAdd ==
  \E tid \in VtTids :
    LET r == VrfAdd(kern, cur, vrf1, tid, {}) IN
    /\ kern' = r.k
    /\ last' = [op |-> "VrfAdd", err |-> r.err]
    /\ UNCHANGED <<cur, procVars>>

RnVrfDelete ==
  \E name \in {vrf1, vrf2} :
    LET r == VrfDelete(kern, cur, name, {}) IN
    /\ kern' = r.k
    /\ last' = [op |-> "VrfDelete", err |-> r.err]
    /\ UNCHANGED <<cur, procVars>>

RnIfUp ==
  \E name \in RnNames :
    LET r == IfUpByName(kern, cur, name, {}) IN
    /\ kern' = r.k
    /\ last' = [op |-> "IfUpByName", err |-> r.err]
    /\ UNCHANGED <<cur, procVars>>

\* IfRename(old, new): the interface old named before the call, as it was
RnRename ==
  \E old \in RnNames, new \in {vrf1, vrf2},
     f \in {{}, {"LinkSetDown"}, {"LinkSetName"}, {"LinkSetUp"}} :
    LET r == IfRename(kern, cur, old, new, f)
        l == KLinkByName(kern, cur, old)
    IN /\ kern' = r.k
       /\ last' = [op |-> "IfRename", old |-> old, new |-> new, id |-> l,
                   before |-> IF l = 0 THEN NoLink ELSE kern.links[l],
                   tid |-> IF l = 0 THEN 0 ELSE VrfTid(kern, l),
                   err |-> r.err]
       /\ UNCHANGED <<cur, procVars>>

NextRename == RnVrfAdd \/ RnVrfDelete \/ RnIfUp \/ RnRename

SpecRename == InitRename /\ [][NextRename]_vars

\* C23: when IfRename(old, new) returns nil, new resolves to the interface
\* that old named, with its kind-specific attributes (a VRF's table id) and
\* everything but the name as before, its administrative state included,
\* and old no longer resolves.
C23_RenameKeepsInterface ==
  (last.op = "IfRename" /\ last.err = Nil) =>
    /\ last.id # 0
    /\ KLinkByName(kern, cur, last.new) = last.id
    /\ kern.links[last.id] = [last.before EXCEPT !.name = last.new]
    /\ kern.links[last.id].up = last.before.up
    /\ VrfTid(kern, last.id) = last.tid
    /\ last.old # last.new => KLinkByName(kern, cur, last.old) = 0

\* a VRF that was up was renamed
C23_Witness ==
  /\ last.op = "IfRename" /\ last.err = Nil
  /\ last.old = vrf1 /\ last.new = vrf2
  /\ last.before.kind = "vrf" /\ last.before.up
  /\ last.tid = 2
  /\ kern.links[last.id].up

\* C25: a teardown run none of whose own kernel calls fails, started from
\* whatever the build left behind, ends with the topology of its example
\* absent: none of its veth pairs, namespaces or masters remains.
C25_TeardownLeavesAbsent ==
  \A i \in Runs :
    (hist[i].cmd = "delete" /\ hist[i].flt = {}) =>
      IF Prog(hist[i]) = "br" THEN BrEnvEmpty(hist[i].kern)
      ELSE NsEnvEmpty(hist[i].kern)

\* a fatal run of the namespace build that itself created the veth pair and
\* in which no kernel call of the teardown was made to fail
FatalAfterPairRun(h) ==
  /\ h.cmd = "add"
  /\ h.exit = 1
  /\ \E j \in 1..Len(h.trace) : h.trace[j].op = "VethAdd" /\ h.trace[j].ok
  /\ \A x \in h.flt :
       x[1] \in {"a_AddByName1", "a_AddByName2", "a_IfSetNS1", "a_IfSetNS2",
                 "a_Get", "a_Set1", "a_Set2"}

\* C26: every fatal exit of the namespace build taken after the run created
\* the veth pair, a failure to create ns1 or ns2 included, comes after the
\* teardown was called, so that at exit neither the pair nor a namespace
\* the run created exists.
C26_FatalExitRollsBack ==
  \A i \in Runs :
    FatalAfterPairRun(hist[i]) =>
      /\ Happened(hist[i].trace, "return")
      /\ \A id \in Links(hist[i].kern) :
           hist[i].kern.links[id].name \notin {veth0, veth1}
      /\ hist[i].kern.nsNamed \subseteq StartKern(i).nsNamed

\* the phase of the teardown a step belongs to: unbinding an endpoint from
\* its master, moving an endpoint out of a namespace, deleting a veth pair,
\* deleting a namespace, deleting the VRF, deleting the bridge; 0 for the
\* lookups and namespace switches in between
TeardownPhase(ev) ==
  CASE ev.op = "IfUnbind" -> 1
    [] ev.op = "IfUnsetNS" -> 2
    [] ev.op = "VethDelete" -> 3
    [] ev.op = "Delete" -> 4
    [] ev.op = "VrfDelete" -> 5
    [] ev.op = "BridgeDelete" -> 6
    [] OTHER -> 0

\* C27: in every teardown run the steps are issued phase by phase: all
\* unbinds, then all moves out of namespaces, then the veth deletions, then
\* the namespace deletions, then the VRF and last the bridge; no step of an
\* earlier phase follows a step of a later one.
C27_TeardownPhaseOrder ==
  \A i \in Runs :
    hist[i].cmd = "delete" =>
      \A a, b \in 1..Len(hist[i].trace) :
        LET pa == TeardownPhase(hist[i].trace[a])
            pb == TeardownPhase(hist[i].trace[b])
        IN (a < b /\ pa # 0 /\ pb # 0) => pa <= pb

\* C28: every namespace handle IfSetNS and IfUnsetNS obtain is closed
\* before the function returns, on every return path: as many handles are
\* open after the call as before it.
C28_HandlesReleased ==
  last.op \in {"IfSetNS", "IfUnsetNS"} =>
    last.handles.opened \subseteq last.handles.closed

\* the steps that switch the namespace of the thread or act in the
\* namespace a switch selected
NsScopedPcs ==
  {"a_IfSetNS1", "a_IfSetNS2", "a_Get", "a_Set1", "a_Lo1", "a_Addr1",
   "a_Set2", "a_Lo2", "a_Addr2", "a_OrigSet",
   "d_Get", "d_Set1", "d_IfUnsetNS1", "d_Delete1", "d_Set2",
   "d_IfUnsetNS2", "d_Delete2", "d_OrigSet", "d_VethDelete"}

\* C29: the orchestrator is pinned to its OS thread from the start of main
\* until the process ends: at every step of addNetwork and deleteNetwork,
\* of the build, the teardown and the teardown called from a failing build,
\* the thread is locked, so no namespace switch runs on an unpinned thread.
C29_PinnedThroughout ==
  pc # "idle" => loc.pinned

C29_Witness ==
  /\ pc \in NsScopedPcs
  /\ cur \in NsNames
  /\ ret = "fatal"
  /\ loc.pinned

(* ------------- iproute.go: IPs, sorted with sort.Sort ------------------ *)
\* net.IP values as byte sequences: 4-byte IPv4 addresses as To4() gives
\* them, and 16-byte addresses as ParseIP gives them (1.2.3.4 in its
\* IPv4-mapped form, and 2001::1)
Zeros(n) == [x \in 1..n |-> 0]

IPv4Pool == {<<1, 2, 3, 4>>, <<1, 3, 2, 4>>, <<4, 3, 2, 1>>}

IPv6Pool ==
  {Zeros(10) \o <<255, 255, 1, 2, 3, 4>>, <<32, 1>> \o Zeros(13) \o <<1>>}

IPPool == IPv4Pool \cup IPv6Pool

\* bytes.Compare: -1, 0 or 1, lexicographic, a proper prefix being smaller
RECURSIVE BytesCompare(_, _)
BytesCompare(x, y) ==
  IF x = <<>> /\ y = <<>> THEN 0
  ELSE IF x = <<>> THEN 0 - 1
  ELSE IF y = <<>> THEN 1
  ELSE IF Head(x) < Head(y) THEN 0 - 1
  ELSE IF Head(x) > Head(y) THEN 1
  ELSE BytesCompare(Tail(x), Tail(y))

IPsLen(a) == Len(a)

IPsSwap(a, i, j) == [a EXCEPT ![i] = a[j], ![j] = a[i]]

\* a Less that also answers true for equal addresses
IPsLess_orEqual(a, i, j) ==
  IF Len(a[i]) # Len(a[j]) THEN [panic |-> TRUE, less |-> FALSE]
  ELSE [panic |-> FALSE, less |-> BytesCompare(a[i], a[j]) <= 0]

\* IPs.Less (indices count from 1 here)
IPsLess(a, i, j) ==
  IF Len(a[i]) # Len(a[j]) THEN [panic |-> TRUE, less |-> FALSE]
  ELSE [panic |-> FALSE, less |-> BytesCompare(a[i], a[j]) < 0]

\* sort.Sort(nh) on a slice of fewer than 12 elements is an insertion sort
\* that touches the slice through Len, Less and Swap only:
\*   for i := 1; i < n; i++ { for j := i; j > 0 && Less(j, j-1); j-- { Swap(j, j-1) } }
\* st is "run" while it works, "done" when it returned, "panic" when Less
\* panicked (the test recovers); cmp is the last call of Less.
NoCmp == [i |-> 0, j |-> 0, x |-> <<>>, y |-> <<>>, panic |-> FALSE, less |-> FALSE]

SortStart(in) ==
  [op |-> "sort.Sort", in |-> in, a |-> in, i |-> 2, j |-> 2,
   st |-> IF IPsLen(in) < 2 THEN "done" ELSE "run", cmp |-> NoCmp]

SortAdvance(s) ==
  IF s.i + 1 > IPsLen(s.a) THEN [s EXCEPT !.st = "done"]
  ELSE [s EXCEPT !.i = s.i + 1, !.j = s.i + 1]

IPSlices == UNION {[1..n -> IPPool] : n \in 0..MaxIPs}

InitSort ==
  /\ kern = EmptyKernel
  /\ cur = Root
  /\ pc = "idle"
  /\ cmd = "none"
  /\ ret = "none"
  /\ loc = LocInit
  /\ flt = {}
  /\ nfault = 0
  /\ trace = <<>>
  /\ hist = <<>>
  /\ \E in \in IPSlices : last = SortStart(in)

\* one test of the inner loop: Less(j, j-1), and Swap(j, j-1) when it holds
SortCompare ==
  /\ last.st = "run"
  /\ last.j > 1
  /\ LET r == IPsLess(last.a, last.j, last.j - 1)
         c == [i |-> last.j, j |-> last.j - 1, x |-> last.a[last.j],
               y |-> last.a[last.j - 1], panic |-> r.panic, less |-> r.less]
     IN last' = IF r.panic THEN [last EXCEPT !.st = "panic", !.cmp = c]
                ELSE IF r.less
                THEN [last EXCEPT !.a = IPsSwap(last.a, last.j, last.j - 1),
                                  !.j = last.j - 1, !.cmp = c]
                ELSE SortAdvance([last EXCEPT !.cmp = c])
  /\ UNCHANGED <<kern, cur, procVars>>

\* the inner loop ends at the front of the slice
SortFront ==
  /\ last.st = "run"
  /\ last.j = 1
  /\ last' = SortAdvance(last)
  /\ UNCHANGED <<kern, cur, procVars>>

NextSort == SortCompare \/ SortFront

SpecSort == InitSort /\ [][NextSort]_vars

SameLength(a) == \A i, j \in 1..Len(a) : Len(a[i]) = Len(a[j])

Occurrences(a, x) == Cardinality({i \in 1..Len(a) : a[i] = x})

IsPermutation(a, b) ==
  /\ Len(a) = Len(b)
  /\ \A x \in IPPool : Occurrences(a, x) = Occurrences(b, x)

\* x is smaller than y at the first byte in which they differ
ByteWiseSmaller(x, y) ==
  \E n \in 1..Len(x) :
    /\ n <= Len(y)
    /\ x[n] < y[n]
    /\ \A m \in 1..(n - 1) : x[m] = y[m]

\* C30: sort.Sort of an IPs slice whose addresses all have one byte length
\* returns with a permutation of the input in non-decreasing byte order,
\* duplicates included; Less(i, j) panics exactly when a[i] and a[j] differ
\* in byte length and otherwise is true iff a[i] is byte-wise strictly
\* smaller than a[j].
C30_SortAndLess ==
  /\ (last.op = "sort.Sort" /\ SameLength(last.in)) =>
       /\ last.st # "panic"
       /\ last.st = "done" =>
            /\ IsPermutation(last.a, last.in)
            /\ \A n \in 1..(Len(last.a) - 1) :
                 BytesCompare(last.a[n], last.a[n + 1]) <= 0
  /\ (last.op = "sort.Sort" /\ last.cmp.i # 0) =>
       /\ last.cmp.panic <=> Len(last.cmp.x) # Len(last.cmp.y)
       /\ ~last.cmp.panic =>
            (last.cmp.less <=> ByteWiseSmaller(last.cmp.x, last.cmp.y))

C30_Witness ==
  /\ last.op = "sort.Sort"
  /\ last.st = "done"
  /\ Len(last.in) = 3
  /\ SameLength(last.in)
  /\ last.in[1] = last.in[3]
  /\ BytesCompare(last.in[2], last.in[1]) < 0
  /\ last.a # last.in
  /\ last.cmp.i # 0

====
